---- MODULE Spec2Model ----
(***************************************************************************)
(* Windows Executor V2 backend: the strategy orchestrator                  *)
(* (core/strategy_executor.py), its exit managers (core/partial_exits.py,  *)
(* core/smart_exits.py), the background loops of main.py and the advisory  *)
(* gate (ai/supervisor.py).                                                *)
(*                                                                         *)
(* Units.  Prices, stop distances and trailing distances are whole pips.   *)
(* Volumes are whole thousandths of a lot (0.1 lot = 100).  A percentage   *)
(* or a reduce factor is a whole number of percent.                        *)
(***************************************************************************)
EXTENDS Integers, Sequences, FiniteSets, TLC

(***************************************************************************)
(* Bounds of the model.                                                    *)
(***************************************************************************)
MaxTickets == 2       \* orders the terminal fills, two-strategy runs
MaxCycles == 2        \* run_cycle calls, two-strategy runs
MaxExitTickets == 1   \* orders the terminal fills, exit-management runs
MaxExitCycles == 3    \* run_cycle calls, exit-management runs
MaxPrice == 3         \* distinct price levels
MaxTime == 3            \* the clock of the advisory client stops after this many milliseconds
MaxTtl == 2             \* the longest ttlMs the advisory endpoint answers with
MaxLevel == 2           \* indicator values range over 1..MaxLevel
MaxConditions == 2      \* the longest list of entry conditions
MaxAtr == 2             \* ATR and volatility readings range over 0..MaxAtr
MaxQueue == 2         \* payloads waiting in the command queue
MaxPosts == 3         \* POSTs whose outcome is drawn for one platform report
MaxClock == 4         \* half seconds the emitter's clock advances
MaxEmitCycles == 3    \* run_cycle calls, emitter runs
MaxShutdownCycles == 1  \* run_cycle calls, shutdown runs
MaxRegistered == 502    \* register_trade calls, trade-history runs
MaxVaried == 2          \* first register_trade calls whose profit may be a loss
MaxRetireCycles == 2     \* run_cycle calls, retirement runs
MaxItems == 1           \* members of a list or a dict in a strategy's rules
MaxAttempts == 3        \* the largest max_attempts a wrapper is built with
MaxDelay == 3           \* the largest initial_delay and max_delay, in seconds

StrategyIds == {"s1", "s2"}
Prices == 11..(10 + MaxPrice)
Tickets == 1..MaxTickets

None == "None"

\* The account snapshot of MT5Client.get_account_info that sizing reads.
AccountBalance == 10000

\* Live spreads the terminal may report: below and above the configs' maxSpread.
Spreads == {1, 5}

(***************************************************************************)
(* StrategyConfig values.  A config is identified by its index in Configs; *)
(* the record holds the parts of the rule tree the orchestrator reads.     *)
(* direction is what ConditionEvaluator._resolve_direction derives from    *)
(* the conditions' descriptions, a function of the config alone.           *)
(***************************************************************************)
Configs ==
    << [ direction         |-> "BUY",
         riskManagement    |-> [lotSize |-> 200, maxPositions |-> 1, riskPercentage |-> 1,
                                stopLossPips |-> 30, pipValue |-> 10, minLot |-> 10,
                                maxLot |-> 1000],
         stopLoss          |-> [type |-> "fixed", value |-> 1],
         trailing          |-> [enabled |-> TRUE, distance |-> 1, step |-> 0],
         spreadFilter      |-> [enabled |-> TRUE, maxSpread |-> 3, action |-> "REDUCE_SIZE",
                                reduceFactor |-> 50],
         correlationFilter |-> [enabled |-> FALSE, action |-> "skip", reduceFactor |-> 50],
         enhancedPartialExits      |-> [enabled |-> TRUE, strategy |-> "sequential",
                                levels |-> << [percentage |-> 50, priority |-> 1,
                                               trigger |-> [type |-> "pips", value |-> 1]],
                                              [percentage |-> 100, priority |-> 2,
                                               trigger |-> [type |-> "pips", value |-> 2]] >>] ],
       [ direction         |-> "SELL",
         riskManagement    |-> [lotSize |-> 100, maxPositions |-> 1, riskPercentage |-> 1,
                                stopLossPips |-> 30, pipValue |-> 10, minLot |-> 10,
                                maxLot |-> 1000],
         stopLoss          |-> [type |-> "fixed", value |-> 2],
         trailing          |-> [enabled |-> TRUE, distance |-> 1, step |-> 1],
         spreadFilter      |-> [enabled |-> TRUE, maxSpread |-> 3, action |-> "SKIP",
                                reduceFactor |-> 50],
         correlationFilter |-> [enabled |-> TRUE, action |-> "reduce", reduceFactor |-> 50],
         enhancedPartialExits      |-> [enabled |-> FALSE, strategy |-> "sequential",
                                levels |-> << >>] ],
       [ direction         |-> "BUY",
         riskManagement    |-> [lotSize |-> 200, maxPositions |-> 1, riskPercentage |-> 1,
                                stopLossPips |-> 30, pipValue |-> 10, minLot |-> 10,
                                maxLot |-> 1000],
         stopLoss          |-> [type |-> "fixed", value |-> 1],
         trailing          |-> [enabled |-> TRUE, distance |-> 1, step |-> 0],
         spreadFilter      |-> [enabled |-> FALSE, maxSpread |-> 3, action |-> "SKIP",
                                reduceFactor |-> 50],
         correlationFilter |-> [enabled |-> FALSE, action |-> "skip", reduceFactor |-> 50],
         enhancedPartialExits      |-> [enabled |-> TRUE, strategy |-> "sequential",
                                levels |-> << [percentage |-> 50, priority |-> 2,
                                               trigger |-> [type |-> "pips", value |-> 2]],
                                              [percentage |-> 50, priority |-> 1,
                                               trigger |-> [type |-> "pips", value |-> 1]] >>] ],
       [ direction         |-> "BUY",
         riskManagement    |-> [lotSize |-> 100, maxPositions |-> 1, riskPercentage |-> 1,
                                stopLossPips |-> 30, pipValue |-> 10, minLot |-> 10,
                                maxLot |-> 1000],
         stopLoss          |-> [type |-> "fixed", value |-> 1],
         trailing          |-> [enabled |-> FALSE, distance |-> 1, step |-> 0],
         spreadFilter      |-> [enabled |-> FALSE, maxSpread |-> 3, action |-> "SKIP",
                                reduceFactor |-> 50],
         correlationFilter |-> [enabled |-> FALSE, action |-> "skip", reduceFactor |-> 50],
         enhancedPartialExits      |-> [enabled |-> TRUE, strategy |-> "sequential",
                                levels |-> << [percentage |-> 100, priority |-> 1,
                                               trigger |-> [type |-> "pips", value |-> 1]] >>] ] >>

\* The first two configs: a BUY strategy whose exit ladder is listed in
\* priority order, and a SELL strategy without a ladder.
CfgIds == {1, 2}

\* The third config: a BUY strategy whose exit ladder lists the level of
\* priority 2 before the level of priority 1.
LadderCfgIds == {3}

\* The fourth config: a BUY strategy without trailing whose single exit
\* level closes the whole position.
ExitAllCfgIds == {4}

VARIABLES
    active_strategies,  \* StrategyExecutor.active_strategies, in insertion order
    open_positions,     \* StrategyExecutor.open_positions, in insertion order
    lock,               \* StrategyExecutor._lock: the holder, or None
    exit_levels,        \* PartialExitManager.exit_levels: ticket -> levels
    broker,             \* the terminal's open positions: ticket -> position
    next_ticket,        \* the terminal's next order ticket
    price,              \* the symbol's current price
    cycle,              \* number of run_cycle calls begun
    monitor_pc,         \* position of main._monitor_loop
    todo,               \* strategies left to evaluate in the running cycle
    manage_todo,        \* (strategy, ticket) pairs left in _manage_open_positions
    accepted,           \* per strategy: orders the terminal accepted
    last_order,         \* the order request of the last evaluation step, or None
    last_modify,        \* the last manage step's trailing pass over a live position:
                        \* the stop computed and the modification requested, or None
    last_partial,       \* the partial-close request of the last manage step, or None
    last_eval,          \* the last step of run_cycle's walk: the strategy, whether it
                        \* was evaluated, whether candles came back, and the outcome
    command_queue,      \* main.lifespan's command_queue
    command_pc,         \* position of main._command_loop
    last_command,       \* the command loop's last step: the payload it handled and the
                        \* status the payload's strategy had before, or None
    mt5_initialized,    \* MT5Client.initialized
    supervisor,         \* Supervisor: mode, provider, and whether the provider's key is set
    gate_pc,            \* position of Supervisor.evaluate
    gate_result,        \* the last outcome of Supervisor.evaluate, or None
    cache_store,        \* SupervisorClient.cache._store: cache key -> entry or None
    now,                \* time.time(), in milliseconds
    client_result,      \* the last outcome of SupervisorClient.evaluate, or None
    call_args,          \* the arguments of one call of a function without state, or None
    call_result,        \* what that call returned, or None while it has not been made
    stop_event,         \* main.lifespan's stop_event
    lifespan_pc,        \* position of main.lifespan: serving, gathering, closed
    emitter_enabled,    \* PusherEmitter._enabled
    last_account_update,\* pusher_emitter._last_account_update, in half seconds
    clock,              \* time.time() as the emitter reads it, in half seconds
    emitted,            \* the clock readings at which account-update was triggered
    trade_history,      \* DynamicRiskManager.trade_history
    registered,         \* every TradeRecord register_trade was called with, in call order
    positions_answered, \* whether mt5.positions_get answered the running pass's query
    retired             \* per retired ticket: the close records written, the
                        \* TradeRecords registered and the position-closed events sent

\* The advisory gate's state.
gate_vars == << supervisor, gate_pc, gate_result >>

\* The state of the client of the platform's advisory endpoint.
client_vars == << cache_store, now, client_result >>

\* One call of a function that keeps no state.
call_vars == << call_args, call_result >>

\* The shutdown of main.lifespan.
life_vars == << stop_event, lifespan_pc >>

\* The emitter of account updates and its clock.
emit_vars == << emitter_enabled, last_account_update, clock, emitted >>

\* The trade history adaptive sizing reads.
risk_vars == << trade_history, registered >>

\* The state the orchestrator's handlers never touch; run_cycle's end alone
\* asks the emitter for an account update.
aside_vars == << gate_vars, client_vars, call_vars, life_vars, emit_vars, risk_vars,
                 positions_answered, retired >>

\* The orchestrator's state, with the loops of main.py.
executor_vars == << active_strategies, open_positions, lock, exit_levels, broker,
                    next_ticket, price, cycle, monitor_pc, todo, manage_todo, accepted,
                    last_order, last_modify, last_partial, last_eval, command_queue,
                    command_pc, last_command, mt5_initialized, life_vars, emit_vars,
                    risk_vars, positions_answered, retired >>

vars == << executor_vars, gate_vars, client_vars, call_vars >>

(***************************************************************************)
(* Python dict helpers: a dict is a sequence of entries in insertion order.*)
(***************************************************************************)
Keys(d) == { d[i].id : i \in DOMAIN d }

IndexOf(d, k) == CHOOSE i \in DOMAIN d : d[i].id = k

Get(d, k) == d[IndexOf(d, k)]

KeyList(d) == [ i \in DOMAIN d |-> d[i].id ]

Max(a, b) == IF a >= b THEN a ELSE b

Min(a, b) == IF a <= b THEN a ELSE b

Abs(a) == IF a >= 0 THEN a ELSE 0 - a

\* Python's round(x, 2) of a volume: to the nearest hundredth of a lot.
Round2(v) == ((v + 5) \div 10) * 10

(***************************************************************************)
(* Faulty variants of the definitions below; each property is tried        *)
(* against the variant that breaks it.                                     *)
(***************************************************************************)
\* start_strategy, stop_strategy and run_cycle without the lock.
LockIgnored == TRUE

\* SpreadFilter.check that lets every action but SKIP pass unreduced.
SpreadFilterCheck_proceeding(config, info_ok, spread) ==
    IF ~config.enabled
    THEN [passed |-> TRUE, action |-> "proceed", factor |-> 0]
    ELSE IF ~info_ok
    THEN [passed |-> FALSE, action |-> "error", factor |-> 0]
    ELSE IF spread <= config.maxSpread \/ config.action # "SKIP"
    THEN [passed |-> TRUE, action |-> "proceed", factor |-> 0]
    ELSE [passed |-> FALSE, action |-> "skip", factor |-> 0]

\* _evaluate_strategy without the returns after the multi-timeframe, news,
\* session and volatility gates.
evaluate_strategy_ungated(config, candles_ok, gates_ok, high_corr, signal_holds, info_ok) ==
    IF ~candles_ok THEN "None"
    ELSE IF high_corr /\ config.correlationFilter.enabled
            /\ config.correlationFilter.action \notin {"reduce", "hedge"} THEN "None"
    ELSE IF ~signal_holds THEN "None"
    ELSE IF config.direction = "BUY" /\ ~info_ok THEN "raise"
    ELSE "signal"

\* _evaluate_strategy without the return on an empty candle frame.
evaluate_strategy_without_candles(config, candles_ok, gates_ok, high_corr, signal_holds, info_ok) ==
    IF ~gates_ok THEN "None"
    ELSE IF high_corr /\ config.correlationFilter.enabled
            /\ config.correlationFilter.action \notin {"reduce", "hedge"} THEN "None"
    ELSE IF ~signal_holds THEN "None"
    ELSE IF config.direction = "BUY" /\ ~info_ok THEN "raise"
    ELSE "signal"

\* _record_trade_open without the try around the trade-log write.
record_trade_open_uncaught(store_ok) ==
    [ logged |-> store_ok, report_task |-> store_ok, raised |-> ~store_ok ]

\* lifespan's shutdown going on without awaiting the two loop tasks.
gathered_at_once == TRUE

\* emit_account_update without the throttle.
throttled_never(t, last) == FALSE

\* register_trade dropping the newest record when the history is full.
register_trade_dropping_newest(history, profit) ==
    IF Len(history) >= 500 THEN history ELSE Append(history, [profit |-> profit])

\* A column that keeps numbers as text, as the String columns of TradeLog do.
RECURSIVE json_column_as_text(_)
json_column_as_text(node) ==
    [ key |-> node.key,
      type |-> IF node.type \in {"int", "float"} THEN "str" ELSE node.type,
      value |-> node.value,
      items |-> [ i \in DOMAIN node.items |-> json_column_as_text(node.items[i]) ] ]

\* update_trailing_stop comparing against the current stop alone, without
\* the step.
update_trailing_stop_without_step(position, current_price, trail_config) ==
    IF position.type = "BUY"
    THEN LET new_stop == current_price - trail_config.distance
         IN  IF new_stop > position.stopLoss THEN << new_stop >> ELSE << >>
    ELSE LET new_stop == current_price + trail_config.distance
         IN  IF new_stop < position.stopLoss THEN << new_stop >> ELSE << >>

\* run_cycle without the test of the record's status.
passed_over_never(record) == FALSE

\* start_strategy building a fresh record also over a record it finds.
start_strategy_replacing(id, cfg) ==
    /\ lock = None
    /\ active_strategies' =
           LET fresh == [ id |-> id, config |-> cfg, status |-> "active",
                          last_check |-> 0, trades_count |-> 0 ]
           IN  IF \E i \in DOMAIN active_strategies : active_strategies[i].id = id
               THEN [ i \in DOMAIN active_strategies |->
                        IF active_strategies[i].id = id THEN fresh ELSE active_strategies[i] ]
               ELSE Append(active_strategies, fresh)
    /\ open_positions' =
           IF \E i \in DOMAIN open_positions : open_positions[i].id = id THEN open_positions
           ELSE Append(open_positions, [id |-> id, positions |-> << >>])

\* Retiring a position with its TradeRecord registered twice.
retire_registering_twice(log, ticket, close_logged, enabled) ==
    LET before == IF ticket \in DOMAIN log THEN log[ticket]
                  ELSE [closes |-> 0, trades |-> 0, events |-> 0]
        after == [ closes |-> before.closes + (IF close_logged THEN 1 ELSE 0),
                   trades |-> before.trades + 2,
                   events |-> before.events + (IF enabled THEN 1 ELSE 0) ]
    IN  [ t \in DOMAIN log \cup {ticket} |-> IF t = ticket THEN after ELSE log[t] ]

\* The loops' `while` condition never seeing the stop event.
loop_goes_on_always(event) == TRUE

\* _execute marking the level executed whatever the terminal answered.
mark_executed_always(levels, hit, success) == [levels EXCEPT ![hit].executed = TRUE]

\* The test for an exhausted position with < in place of <=.
exhausted_below_zero(stored) == stored.volume < 0

\* TTLCache.get without the test of expires_at.
TTLCache_get_never_expires(store, key, t) ==
    IF store[key] = << >>
    THEN [value |-> << >>, store |-> store]
    ELSE [value |-> << store[key][1].value >>, store |-> store]

\* check_partial_exits without the `if level.executed: continue` test.
check_partial_exits_ignoring_executed(levels, position, current_price) ==
    LET hits == { i \in DOMAIN levels :
                    \/ position.type = "BUY" /\ current_price >= levels[i].trigger_price
                    \/ position.type = "SELL" /\ current_price <= levels[i].trigger_price }
    IN  IF hits = {} THEN 0 ELSE CHOOSE i \in hits : \A j \in hits : i <= j

\* The trailing config read for the positions of active strategies only.
trailing_config_of_active_only(strategy_id) ==
    IF /\ strategy_id \in Keys(active_strategies)
       /\ Get(active_strategies, strategy_id).status = "active"
    THEN Configs[Get(active_strategies, strategy_id).config].trailing
    ELSE [enabled |-> FALSE, distance |-> 30, step |-> 10]

\* run_cycle walking every strategy record twice in one cycle.
cycle_snapshot_repeated(strategies) == KeyList(strategies) \o KeyList(strategies)

\* update_trailing_stop without the comparison against the current stop.
update_trailing_stop_unchecked(position, current_price, trail_config) ==
    IF position.type = "BUY"
    THEN << current_price - trail_config.distance >>
    ELSE << current_price + trail_config.distance >>

\* run_cycle counting a trade whatever the result.
count_trade_always(record, success) == [record EXCEPT !.trades_count = @ + 1]

\* all that is content with one entry that holds.
all_as_any(matches) == \E i \in DOMAIN matches : matches[i]

\* Python's all and any over a list of booleans.
all(matches) == \A i \in DOMAIN matches : matches[i]
any(matches) == \E i \in DOMAIN matches : matches[i]

(***************************************************************************)
(* RiskManager.calculate_position_size: the configured lotSize when it is  *)
(* set, else percent-risk sizing clamped to [minLot, maxLot].              *)
(***************************************************************************)
calculate_position_size(balance, risk_rules) ==
    IF risk_rules.lotSize # 0
    THEN risk_rules.lotSize
    ELSE IF risk_rules.pipValue <= 0 \/ risk_rules.stopLossPips <= 0
         THEN 10
         ELSE LET lot == (balance * risk_rules.riskPercentage * 1000)
                             \div (100 * risk_rules.pipValue * risk_rules.stopLossPips)
              IN  Max(Min(lot, risk_rules.maxLot), risk_rules.minLot)

(***************************************************************************)
(* SpreadFilter.check.  info_ok: get_symbol_info returned a value.         *)
(***************************************************************************)
SpreadFilterCheck(config, info_ok, spread) ==
    IF ~config.enabled
    THEN [passed |-> TRUE, action |-> "proceed", factor |-> 0]
    ELSE IF ~info_ok
    THEN [passed |-> FALSE, action |-> "error", factor |-> 0]
    ELSE IF spread <= config.maxSpread
    THEN [passed |-> TRUE, action |-> "proceed", factor |-> 0]
    ELSE IF config.action = "REDUCE_SIZE"
    THEN [passed |-> TRUE, action |-> "reduce",
          factor |-> Max(10, Min(config.reduceFactor, 100))]
    ELSE [passed |-> FALSE, action |-> "skip", factor |-> 0]

(***************************************************************************)
(* CorrelationFilter.check_correlation.  high_corr: some watched symbol's  *)
(* correlation reaches the threshold.                                      *)
(***************************************************************************)
check_correlation(config, high_corr) ==
    IF ~config.enabled
    THEN [passed |-> TRUE, action |-> "proceed", factor |-> 0]
    ELSE IF ~high_corr
    THEN [passed |-> TRUE, action |-> "proceed", factor |-> 0]
    ELSE IF config.action = "reduce"
    THEN [passed |-> TRUE, action |-> "reduce",
          factor |-> Max(10, Min(config.reduceFactor, 100))]
    ELSE IF config.action = "hedge"
    THEN [passed |-> TRUE, action |-> "hedge", factor |-> 0]
    ELSE [passed |-> FALSE, action |-> "skip", factor |-> 0]

(***************************************************************************)
(* SmartExitManager._calculate_stop_loss, fixed distance.                  *)
(***************************************************************************)
calculate_stop_loss(direction, entry_price, exit_config) ==
    IF direction = "BUY"
    THEN entry_price - exit_config.stopLoss.value
    ELSE entry_price + exit_config.stopLoss.value

(***************************************************************************)
(* SmartExitManager.update_trailing_stop: <<new_stop>>, or << >> for None. *)
(***************************************************************************)
update_trailing_stop(position, current_price, trail_config) ==
    IF position.type = "BUY"
    THEN LET new_stop == current_price - trail_config.distance
         IN  IF new_stop > position.stopLoss + trail_config.step
             THEN << new_stop >> ELSE << >>
    ELSE LET new_stop == current_price + trail_config.distance
         IN  IF new_stop < position.stopLoss - trail_config.step
             THEN << new_stop >> ELSE << >>

(***************************************************************************)
(* PartialExitManager._calculate_trigger_price.                            *)
(***************************************************************************)
calculate_trigger_price(position, trigger) ==
    LET entry_price == position.openPrice
        move == IF trigger.type = "rr_ratio"
                THEN Abs(entry_price - position.stopLoss) * trigger.value
                ELSE IF trigger.type = "percentage"
                THEN (entry_price * trigger.value) \div 100
                ELSE trigger.value
    IN  IF position.type = "BUY" THEN entry_price + move ELSE entry_price - move

\* list.sort(key=priority): a stable insertion sort.
RECURSIVE SortByPriority(_)
SortByPriority(levels) ==
    IF levels = << >> THEN << >>
    ELSE LET rest == SortByPriority(Tail(levels))
             lvl == Head(levels)
             before == SelectSeq(rest, LAMBDA x : x.priority < lvl.priority)
             after == SelectSeq(rest, LAMBDA x : x.priority >= lvl.priority)
         IN  before \o << lvl >> \o after

\* The loop of setup_exit_levels over levels_config, carrying remaining_volume.
RECURSIVE BuildLevels(_, _, _, _)
BuildLevels(position, levels_config, remaining_volume, strategy) ==
    IF levels_config = << >> THEN << >>
    ELSE LET entry == Head(levels_config)
             exit_volume == (remaining_volume * entry.percentage) \div 100
         IN  IF entry.percentage <= 0
             THEN BuildLevels(position, Tail(levels_config), remaining_volume, strategy)
             ELSE << [ trigger_price |-> calculate_trigger_price(position, entry.trigger),
                       exit_lots     |-> Round2(exit_volume),
                       percentage    |-> entry.percentage,
                       executed      |-> FALSE,
                       priority      |-> entry.priority ] >>
                  \o BuildLevels(position, Tail(levels_config),
                                 IF strategy = "sequential"
                                 THEN remaining_volume - exit_volume
                                 ELSE remaining_volume,
                                 strategy)

(***************************************************************************)
(* PartialExitManager.setup_exit_levels: the levels stored for the ticket. *)
(***************************************************************************)
setup_exit_levels(position, config) ==
    IF ~config.enabled THEN << >>
    ELSE SortByPriority(BuildLevels(position, config.levels, position.volume,
                                    config.strategy))

\* The trigger test of check_partial_exits for one level.
Triggered(position, level, current_price) ==
    \/ position.type = "BUY" /\ current_price >= level.trigger_price
    \/ position.type = "SELL" /\ current_price <= level.trigger_price

(***************************************************************************)
(* PartialExitManager.check_partial_exits: the index of the level handed   *)
(* to _execute (the first level not executed whose trigger holds), or 0.   *)
(***************************************************************************)
check_partial_exits(levels, position, current_price) ==
    LET hits == { i \in DOMAIN levels :
                    ~levels[i].executed /\ Triggered(position, levels[i], current_price) }
    IN  IF hits = {} THEN 0 ELSE CHOOSE i \in hits : \A j \in hits : i <= j

(***************************************************************************)
(* StrategyExecutor._evaluate_strategy: "None", "signal", or "raise".      *)
(* candles_ok: get_candles returned rows.  gates_ok: the multi-timeframe,  *)
(* news, session and volatility gates let the strategy through.            *)
(* signal_holds: ConditionEvaluator.evaluate found the entry signal.       *)
(* info_ok: get_symbol_info returned a value; with the emitter attached, a *)
(* BUY signal reads symbol_info.get("ask") before testing symbol_info, so  *)
(* a missing symbol info raises AttributeError there.                      *)
(***************************************************************************)
evaluate_strategy(config, candles_ok, gates_ok, high_corr, signal_holds, info_ok) ==
    IF ~candles_ok THEN "None"
    ELSE IF ~gates_ok THEN "None"
    ELSE IF ~check_correlation(config.correlationFilter, high_corr).passed THEN "None"
    ELSE IF ~signal_holds THEN "None"
    ELSE IF config.direction = "BUY" /\ ~info_ok THEN "raise"
    ELSE "signal"

(***************************************************************************)
(* StrategyExecutor._execute_trade up to the order request: the lot size   *)
(* after the correlation and spread reductions.                            *)
(***************************************************************************)
trade_lot_size(config, balance, correlation_action, spread_result) ==
    LET base == calculate_position_size(balance, config.riskManagement)
        after_corr == IF correlation_action.action = "reduce" /\ correlation_action.factor # 0
                      THEN (base * correlation_action.factor) \div 100
                      ELSE base
    IN  IF spread_result.action = "reduce" /\ spread_result.factor # 0
        THEN (after_corr * spread_result.factor) \div 100
        ELSE after_corr

\* _execute_trade sends an order request: no early return before open_position.
sends_order(config, balance, correlation_action, spread_result, info_ok) ==
    /\ spread_result.passed
    /\ trade_lot_size(config, balance, correlation_action, spread_result) > 0
    /\ info_ok

\* StrategyExecutor._register_open_position on the open_positions dict.
register_open_position(positions, strategy_id, position) ==
    IF strategy_id \in Keys(positions)
    THEN [positions EXCEPT ![IndexOf(positions, strategy_id)].positions = Append(@, position)]
    ELSE Append(positions, [id |-> strategy_id, positions |-> << position >>])

\* list.remove of the stored position with this ticket.
RemoveTicket(seq, ticket) == SelectSeq(seq, LAMBDA x : x.ticket # ticket)

\* dict.pop(strategy_id, None).
Pop(d, k) == SelectSeq(d, LAMBDA e : e.id # k)

\* The (strategy, ticket) pairs _manage_open_positions walks, in its order.
RECURSIVE ManageOrder(_)
ManageOrder(positions) ==
    IF positions = << >> THEN << >>
    ELSE LET e == Head(positions)
         IN  [ i \in DOMAIN e.positions |-> << e.id, e.positions[i].ticket >> ]
             \o ManageOrder(Tail(positions))

\* The lock of `async with self._lock` can be taken.
LockFree == lock = None

\* The threshold of emit_account_update, 1.0 s, in half seconds.
OneSecond == 2

\* emit_account_update's throttle test.
throttled(t, last) == t - last < OneSecond

(***************************************************************************)
(* PusherEmitter.emit_account_update at clock reading t: the module-level   *)
(* _last_account_update and the readings at which the event was triggered. *)
(***************************************************************************)
emit_account_update(enabled, t, last, log) ==
    IF ~enabled \/ throttled(t, last)
    THEN [last |-> last, emitted |-> log]
    ELSE [last |-> t, emitted |-> Append(log, t)]

\* pusher_emitter.initialize has run with the Pusher credentials set.
EmitterReady == emitter_enabled = TRUE

InitCommon ==
    /\ active_strategies = << >>
    /\ open_positions = << >>
    /\ lock = None
    /\ exit_levels = << >>
    /\ broker = << >>
    /\ next_ticket = 1
    /\ cycle = 0
    /\ monitor_pc = "wait"
    /\ todo = << >>
    /\ manage_todo = << >>
    /\ accepted = [ s \in StrategyIds |-> 0 ]
    /\ last_order = << >>
    /\ last_modify = << >>
    /\ last_partial = << >>
    /\ last_eval = << >>
    /\ stop_event = FALSE
    /\ lifespan_pc = "serving"
    /\ last_account_update = 0
    /\ clock = OneSecond
    /\ emitted = << >>
    /\ trade_history = << >>
    /\ registered = << >>
    /\ positions_answered = TRUE
    /\ retired = << >>
    /\ command_queue = << >>
    /\ command_pc = "wait"
    /\ last_command = << >>

\* The contexts the advisory client is asked about: two symbols, and an
\* account balance that is not part of the cache key.
Contexts ==
    [ symbol : {"EURUSD", "GBPUSD"}, timeframe : {"M15"}, proposed_action : {"BUY"},
      risk : {[sl_pips |-> 20, tp_pips |-> 40]}, filters : {[spread |-> 1]},
      ml : {[signal_score |-> 1]}, account : [balance : {AccountBalance, 0}] ]

\* SupervisorClient._cache_key: the seven fields the key is joined from.
cache_key(context) ==
    << context.symbol, context.timeframe, context.proposed_action, context.risk.sl_pips,
       context.risk.tp_pips, context.filters.spread, context.ml.signal_score >>

CacheKeys == { cache_key(context) : context \in Contexts }

\* No evaluation of the advisory gate has been asked for.
GateIdle ==
    /\ gate_pc = "idle"
    /\ gate_result = << >>

\* The advisory gate switched off (SUPERVISOR_MODE=off).
GateOff ==
    /\ supervisor = [mode |-> "off", provider |-> "none", api_key |-> FALSE]
    /\ GateIdle

\* The advisory client with an empty cache, never called.
ClientIdle ==
    /\ cache_store = [ key \in CacheKeys |-> << >> ]
    /\ now = 0
    /\ client_result = << >>

\* No call of a function without state is looked at.
CallIdle ==
    /\ call_args = << >>
    /\ call_result = << >>

\* The state after main.lifespan's startup with the terminal connected; the
\* price stays at the lowest level.
Init ==
    /\ InitCommon
    /\ EmitterReady
    /\ GateOff
    /\ ClientIdle
    /\ CallIdle
    /\ price = 11
    /\ mt5_initialized = TRUE

(***************************************************************************)
(* StrategyExecutor.start_strategy.                                        *)
(***************************************************************************)
start_strategy(id, cfg) ==
    /\ LockFree
    /\ IF id \in Keys(active_strategies)
       THEN UNCHANGED << active_strategies, open_positions >>
       ELSE /\ active_strategies' =
                   Append(active_strategies,
                          [ id |-> id, config |-> cfg, status |-> "active",
                            last_check |-> 0, trades_count |-> 0 ])
            /\ open_positions' =
                   IF id \in Keys(open_positions) THEN open_positions
                   ELSE Append(open_positions, [id |-> id, positions |-> << >>])

(***************************************************************************)
(* StrategyExecutor.stop_strategy.                                         *)
(***************************************************************************)
stop_strategy(id) ==
    /\ LockFree
    /\ IF id \notin Keys(active_strategies)
       THEN UNCHANGED active_strategies
       ELSE active_strategies' =
               [active_strategies EXCEPT ![IndexOf(active_strategies, id)].status = "stopped"]

\* StrategyExecutor.list_statuses: the ids reported.
list_statuses == Keys(active_strategies)

\* api/strategies.py: POST /start.
ApiStart(id, cfg) ==
    /\ last_command' = << >>
    /\ last_eval' = << >>
    /\ UNCHANGED aside_vars
    /\ start_strategy(id, cfg)
    /\ UNCHANGED << lock, exit_levels, broker, next_ticket, price, cycle, monitor_pc, todo,
                    manage_todo, accepted, last_order, last_modify,
                    last_partial, command_queue, command_pc, mt5_initialized >>

\* api/strategies.py: POST /stop/{id} and DELETE /{id}.
ApiStop(id) ==
    /\ last_command' = << >>
    /\ last_eval' = << >>
    /\ UNCHANGED aside_vars
    /\ stop_strategy(id)
    /\ UNCHANGED << open_positions, lock, exit_levels, broker, next_ticket, price, cycle,
                    monitor_pc, todo, manage_todo, accepted, last_order,
                    last_modify, last_partial, command_queue, command_pc, mt5_initialized >>

(***************************************************************************)
(* main._monitor_loop calls run_cycle, which takes the lock and snapshots  *)
(* list(self.active_strategies.items()).                                   *)
(***************************************************************************)
\* run_cycle's list(self.active_strategies.items()): each record once, in
\* insertion order.
cycle_snapshot(strategies) == KeyList(strategies)

\* `while not stop_event.is_set()`, the condition of _monitor_loop and of
\* _command_loop, read before every iteration.
loop_goes_on(event) == ~event

CycleBegin(max_cycles) ==
    /\ last_command' = << >>
    /\ last_eval' = << >>
    /\ UNCHANGED aside_vars
    /\ monitor_pc = "wait"
    /\ loop_goes_on(stop_event)
    /\ cycle < max_cycles
    /\ LockFree
    /\ lock' = "run_cycle"
    /\ cycle' = cycle + 1
    /\ monitor_pc' = "eval"
    /\ todo' = cycle_snapshot(active_strategies)
    /\ last_order' = << >>
    /\ last_modify' = << >>
    /\ last_partial' = << >>
    /\ UNCHANGED << active_strategies, open_positions, exit_levels, broker, next_ticket,
                    price, manage_todo, accepted, command_queue, command_pc,
                    mt5_initialized >>

(***************************************************************************)
(* What the market, the terminal and the filters' data answer during one   *)
(* strategy's evaluation.  The inputs read after an early return are fixed *)
(* so that each distinct run of the code is listed once; a failing         *)
(* trade-log write or platform report is drawn for an accepted order.      *)
(***************************************************************************)
Quiet(candles_ok, gates_ok, signal_holds, high_corr) ==
    [ candles_ok |-> candles_ok, gates_ok |-> gates_ok, signal_holds |-> signal_holds,
      high_corr |-> high_corr, info_eval |-> TRUE, info_exec |-> TRUE, order_ok |-> FALSE,
      spread |-> 1, store_ok |-> TRUE, report_ok |-> TRUE ]

EvalInputs ==
    { Quiet(FALSE, TRUE, TRUE, FALSE), Quiet(TRUE, FALSE, TRUE, FALSE),
      Quiet(TRUE, TRUE, FALSE, FALSE), Quiet(TRUE, TRUE, FALSE, TRUE) }
    \cup
    [ candles_ok : {TRUE}, gates_ok : {TRUE}, signal_holds : {TRUE}, high_corr : BOOLEAN,
      info_eval : BOOLEAN, info_exec : BOOLEAN, order_ok : BOOLEAN, spread : Spreads,
      store_ok : {TRUE}, report_ok : {TRUE} ]
    \cup
    { input \in [ candles_ok : {TRUE}, gates_ok : {TRUE}, signal_holds : {TRUE},
                  high_corr : {FALSE}, info_eval : {TRUE}, info_exec : {TRUE},
                  order_ok : {TRUE}, spread : {1}, store_ok : BOOLEAN,
                  report_ok : BOOLEAN ] : ~(input.store_ok /\ input.report_ok) }

(***************************************************************************)
(* StrategyExecutor._record_trade_open.  store_ok: the trade-log write      *)
(* goes through; its exception is caught and logged.  The platform report   *)
(* is handed to a task of its own, whose outcome run_cycle never reads.     *)
(***************************************************************************)
record_trade_open(store_ok) ==
    [ logged |-> store_ok, report_task |-> TRUE, raised |-> FALSE ]

\* run_cycle's increment of trades_count after a successful result.
count_trade(record, success) ==
    IF success THEN [record EXCEPT !.trades_count = @ + 1] ELSE record

(***************************************************************************)
(* One iteration of run_cycle's loop: the strategy is skipped unless       *)
(* active; else _evaluate_strategy, then _execute_trade on a signal.       *)
(* An exception leaves run_cycle (releasing the lock) and, uncaught in     *)
(* _monitor_loop, ends that task.  The terminal fills max_tickets orders.  *)
(***************************************************************************)
\* run_cycle's `if data["status"] != "active": continue`.
passed_over(record) == record.status # "active"

CycleStrategy(max_tickets) ==
    /\ last_command' = << >>
    /\ UNCHANGED aside_vars
    /\ monitor_pc = "eval"
    /\ todo # << >>
    /\ LET sid == Head(todo)
           i == IndexOf(active_strategies, sid)
           record == active_strategies[i]
           config == Configs[record.config]
       IN
       IF passed_over(record)
       THEN /\ todo' = Tail(todo)
            /\ last_order' = << >>
            /\ last_eval' = << [ strategy |-> sid, evaluated |-> FALSE,
                                 candles_ok |-> FALSE, outcome |-> "None" ] >>
            /\ UNCHANGED << active_strategies, open_positions, lock, exit_levels, broker,
                            next_ticket, monitor_pc, accepted >>
       ELSE \E input \in EvalInputs :
            LET high_corr == input.high_corr
                spread == input.spread
                info_exec == input.info_exec
                order_ok == input.order_ok
                outcome == evaluate_strategy(config, input.candles_ok /\ mt5_initialized,
                                             input.gates_ok, high_corr, input.signal_holds,
                                             input.info_eval /\ mt5_initialized)
                correlation_action == check_correlation(config.correlationFilter, high_corr)
                spread_result == SpreadFilterCheck(config.spreadFilter,
                                                   info_exec /\ mt5_initialized, spread)
                balance == IF mt5_initialized THEN AccountBalance ELSE 0
                lot_size == trade_lot_size(config, balance, correlation_action, spread_result)
                sent == /\ outcome = "signal"
                        /\ sends_order(config, balance, correlation_action, spread_result,
                                       info_exec /\ mt5_initialized)
                success == sent /\ order_ok /\ mt5_initialized /\ next_ticket <= max_tickets
                stop_loss == calculate_stop_loss(config.direction, price, config)
                position == [ ticket |-> next_ticket, type |-> config.direction,
                              volume |-> lot_size, openPrice |-> price,
                              stopLoss |-> stop_loss, strategyId |-> sid ]
                recording == record_trade_open(input.store_ok)
                raised_after_open == success /\ recording.raised
            IN
            /\ last_eval' = << [ strategy |-> sid, evaluated |-> TRUE,
                                 candles_ok |-> input.candles_ok /\ mt5_initialized,
                                 outcome |-> outcome ] >>
            /\ IF outcome = "raise"
               THEN /\ lock' = None
                    /\ monitor_pc' = "crashed"
                    /\ last_order' = << >>
                    /\ UNCHANGED << active_strategies, open_positions, exit_levels, broker,
                                    next_ticket, todo, accepted >>
               ELSE /\ todo' = IF raised_after_open THEN todo ELSE Tail(todo)
                    /\ active_strategies' =
                           IF raised_after_open THEN active_strategies
                           ELSE [active_strategies EXCEPT
                                    ![i] = [count_trade(record, success)
                                               EXCEPT !.last_check = cycle]]
                    /\ last_order' =
                           IF sent
                           THEN << [ strategy |-> sid, volume |-> lot_size, accepted |-> success,
                                     open_before |-> Cardinality(DOMAIN broker),
                                     own_before |->
                                         IF sid \in Keys(open_positions)
                                         THEN Len(Get(open_positions, sid).positions)
                                         ELSE 0,
                                     corr_reduced |-> correlation_action.action = "reduce",
                                     spread_reduced |-> spread_result.action = "reduce",
                                     ticket |-> IF success THEN next_ticket ELSE 0,
                                     logged |-> success /\ recording.logged,
                                     reported |-> /\ success
                                                  /\ recording.report_task
                                                  /\ input.report_ok ] >>
                           ELSE << >>
                    /\ IF success
                       THEN /\ broker' = [ t \in DOMAIN broker \cup {next_ticket} |->
                                             IF t = next_ticket
                                             THEN [ type |-> config.direction, volume |-> lot_size,
                                                    openPrice |-> price, stopLoss |-> stop_loss ]
                                             ELSE broker[t] ]
                            /\ next_ticket' = next_ticket + 1
                            /\ open_positions' = register_open_position(open_positions, sid, position)
                            /\ exit_levels' =
                                   IF config.enhancedPartialExits.enabled /\ ~raised_after_open
                                   THEN [ t \in DOMAIN exit_levels \cup {next_ticket} |->
                                            IF t = next_ticket
                                            THEN setup_exit_levels(position, config.enhancedPartialExits)
                                            ELSE exit_levels[t] ]
                                   ELSE exit_levels
                            /\ accepted' = [accepted EXCEPT ![sid] = @ + 1]
                       ELSE UNCHANGED << broker, next_ticket, open_positions, exit_levels,
                                         accepted >>
                    /\ IF raised_after_open
                       THEN /\ lock' = None
                            /\ monitor_pc' = "crashed"
                       ELSE UNCHANGED << lock, monitor_pc >>
    /\ UNCHANGED << price, cycle, manage_todo, last_modify, last_partial, command_queue,
                    command_pc, mt5_initialized >>

\* The length register_trade keeps the history to.
HistoryCap == 500

\* DynamicRiskManager.register_trade: append, then drop the oldest record
\* once the list is longer than the cap.
register_trade(history, profit) ==
    LET appended == Append(history, [profit |-> profit])
    IN  IF Len(appended) > HistoryCap THEN Tail(appended) ELSE appended

\* The profit a position carries when it is retired; positions are not
\* marked to market here.
StoredProfit == 0

(***************************************************************************)
(* What retiring a position leaves behind: _record_trade_close writes the  *)
(* close price into the ticket's row when it finds one and the session     *)
(* commits, register_trade is called once, and emit_position_closed sends  *)
(* an event when the emitter is enabled.                                   *)
(***************************************************************************)
retire(log, ticket, close_logged, enabled) ==
    LET before == IF ticket \in DOMAIN log THEN log[ticket]
                  ELSE [closes |-> 0, trades |-> 0, events |-> 0]
        after == [ closes |-> before.closes + (IF close_logged THEN 1 ELSE 0),
                   trades |-> before.trades + 1,
                   events |-> before.events + (IF enabled THEN 1 ELSE 0) ]
    IN  [ t \in DOMAIN log \cup {ticket} |-> IF t = ticket THEN after ELSE log[t] ]

\* MT5Client.get_positions as a ticket-keyed dict: empty without the
\* terminal, and empty when mt5.positions_get answers None.
current_positions == IF mt5_initialized /\ positions_answered THEN DOMAIN broker ELSE {}

\* `if not positions: self.open_positions.pop(strategy_id, None)`.
PopIfEmpty(positions, strategy_id) ==
    IF strategy_id \in Keys(positions) /\ Get(positions, strategy_id).positions = << >>
    THEN Pop(positions, strategy_id)
    ELSE positions

RECURSIVE PopAllEmpty(_)
PopAllEmpty(positions) ==
    IF positions = << >> THEN << >>
    ELSE IF Head(positions).positions = << >>
         THEN PopAllEmpty(Tail(positions))
         ELSE << Head(positions) >> \o PopAllEmpty(Tail(positions))

(***************************************************************************)
(* run_cycle reaches _manage_open_positions: the pass is laid out over the *)
(* stored positions; a strategy with no stored position is popped at once. *)
(* answers: what mt5.positions_get may do, answer (TRUE) or fail (FALSE).  *)
(***************************************************************************)
ManageBeginOn(answers) ==
    /\ last_command' = << >>
    /\ last_eval' = << >>
    /\ UNCHANGED << gate_vars, client_vars, call_vars, life_vars, emit_vars, risk_vars,
                    retired >>
    /\ positions_answered' \in answers
    /\ monitor_pc = "eval"
    /\ todo = << >>
    /\ monitor_pc' = "manage"
    /\ manage_todo' = ManageOrder(open_positions)
    /\ open_positions' = PopAllEmpty(open_positions)
    /\ last_order' = << >>
    /\ UNCHANGED << active_strategies, lock, exit_levels, broker, next_ticket, price, cycle,
                    todo, accepted, last_modify, last_partial,
                    command_queue, command_pc, mt5_initialized >>

\* The pass with a terminal that answers the query for its positions.
ManageBegin == ManageBeginOn({TRUE})

\* MT5Client.close_position_partial accepts the volume (order_ok: the terminal
\* executes the deal).
partial_accepted(live_volume, volume, order_ok) ==
    volume > 0 /\ volume <= live_volume /\ order_ok

\* PartialExitManager._execute: the level is marked executed only when
\* close_position_partial succeeded.
mark_executed(levels, hit, success) ==
    IF success THEN [levels EXCEPT ![hit].executed = TRUE] ELSE levels

\* The trailing config _manage_open_positions reads for a stored position.
trailing_config_of(strategy_id) ==
    IF strategy_id \in Keys(active_strategies)
    THEN Configs[Get(active_strategies, strategy_id).config].trailing
    ELSE [enabled |-> FALSE, distance |-> 30, step |-> 10]

\* _manage_open_positions' test after a partial exit: nothing is left of the
\* stored position.
exhausted(stored) == stored.volume <= 0

\* The stop modification _manage_open_positions asks for: << new_stop >> or << >>.
trailing_request(stored, current_price, trailing_config) ==
    IF ~trailing_config.enabled THEN << >>
    ELSE LET new_stop == update_trailing_stop(stored, current_price, trailing_config)
         IN  IF new_stop # << >> /\ new_stop[1] # 0 THEN new_stop ELSE << >>

(***************************************************************************)
(* One iteration of _manage_open_positions' inner loop, for one stored     *)
(* position: retire it when the terminal no longer reports the ticket;     *)
(* else take over the live fields, trail the stop and check partial exits. *)
(* close_answers: what the session of _record_trade_close may do, find the *)
(* ticket's row and commit (TRUE), or find no row or fail (FALSE).         *)
(***************************************************************************)
ManageStepOn(close_answers) ==
    /\ last_command' = << >>
    /\ last_eval' = << >>
    /\ UNCHANGED << gate_vars, client_vars, call_vars, life_vars, emit_vars,
                    positions_answered >>
    /\ monitor_pc = "manage"
    /\ manage_todo # << >>
    /\ LET sid == Head(manage_todo)[1]
           ticket == Head(manage_todo)[2]
           entry_i == IndexOf(open_positions, sid)
           positions == open_positions[entry_i].positions
           k == CHOOSE j \in DOMAIN positions : positions[j].ticket = ticket
           last_of_strategy == \A j \in DOMAIN Tail(manage_todo) : Tail(manage_todo)[j][1] # sid
           Finish(new_positions) ==
               LET updated == [open_positions EXCEPT ![entry_i].positions = new_positions]
               IN  IF last_of_strategy THEN PopIfEmpty(updated, sid) ELSE updated
       IN
       /\ manage_todo' = Tail(manage_todo)
       /\ IF ticket \notin current_positions
          THEN /\ open_positions' = Finish(RemoveTicket(positions, ticket))
               /\ \E close_logged \in close_answers :
                     retired' = retire(retired, ticket, close_logged, emitter_enabled)
               /\ trade_history' = register_trade(trade_history, StoredProfit)
               /\ registered' = Append(registered, [profit |-> StoredProfit])
               /\ last_modify' = << >>
               /\ last_partial' = << >>
               /\ UNCHANGED << broker, exit_levels >>
          ELSE \E modify_ok, partial_ok \in BOOLEAN, close_logged \in close_answers :
               LET live == broker[ticket]
                   stored == [positions[k] EXCEPT !.type = live.type, !.volume = live.volume,
                                                  !.openPrice = live.openPrice,
                                                  !.stopLoss = live.stopLoss]
                   new_stop == trailing_request(stored, price, trailing_config_of(sid))
                   modified == new_stop # << >> /\ modify_ok
                   trailed == IF modified THEN [stored EXCEPT !.stopLoss = new_stop[1]]
                              ELSE stored
                   levels == IF ticket \in DOMAIN exit_levels THEN exit_levels[ticket]
                             ELSE << >>
                   hit == check_partial_exits(levels, trailed, price)
                   exit_lots == IF hit = 0 THEN 0 ELSE levels[hit].exit_lots
                   closed == hit # 0 /\ partial_accepted(live.volume, exit_lots, partial_ok)
                   reduced == IF closed THEN [trailed EXCEPT !.volume = @ - exit_lots]
                              ELSE trailed
                   live_after == [live EXCEPT
                                     !.stopLoss = IF modified THEN new_stop[1] ELSE @,
                                     !.volume = IF closed THEN @ - exit_lots ELSE @]
               IN
               /\ last_modify' =
                      IF ~trailing_config_of(sid).enabled THEN << >>
                      ELSE << [ ticket |-> ticket, type |-> stored.type,
                                current_stop |-> stored.stopLoss,
                                computed |-> IF stored.type = "BUY"
                                             THEN price - trailing_config_of(sid).distance
                                             ELSE price + trailing_config_of(sid).distance,
                                requested |-> new_stop # << >>,
                                new_stop |-> IF new_stop # << >> THEN new_stop[1] ELSE 0,
                                accepted |-> modified ] >>
               /\ last_partial' =
                      IF hit = 0 THEN << >>
                      ELSE << [ ticket |-> ticket, level |-> hit, volume |-> exit_lots,
                                executed_before |-> levels[hit].executed,
                                remaining |-> live.volume,
                                percentage |-> levels[hit].percentage,
                                accepted |-> closed ] >>
               /\ exit_levels' =
                      IF hit # 0
                      THEN [exit_levels EXCEPT ![ticket] = mark_executed(@, hit, closed)]
                      ELSE exit_levels
               /\ broker' =
                      IF live_after.volume <= 0
                      THEN [ t \in DOMAIN broker \ {ticket} |-> broker[t] ]
                      ELSE [broker EXCEPT ![ticket] = live_after]
               /\ open_positions' =
                      IF closed /\ exhausted(reduced)
                      THEN Finish(RemoveTicket([positions EXCEPT ![k] = reduced], ticket))
                      ELSE Finish([positions EXCEPT ![k] = reduced])
               /\ IF closed /\ exhausted(reduced)
                  THEN /\ retired' = retire(retired, ticket, close_logged, emitter_enabled)
                       /\ trade_history' = register_trade(trade_history, StoredProfit)
                       /\ registered' = Append(registered, [profit |-> StoredProfit])
                  ELSE UNCHANGED << retired, risk_vars >>
    /\ last_order' = << >>
    /\ UNCHANGED << active_strategies, lock, next_ticket, price, cycle, monitor_pc, todo,
                    accepted, command_queue, command_pc, mt5_initialized >>

\* The pass with a store that holds the ticket's row and commits.
ManageStep == ManageStepOn({TRUE})

(***************************************************************************)
(* run_cycle asks the emitter for an account update when get_account_info  *)
(* answers, and returns, releasing the lock; _monitor_loop waits for the    *)
(* next tick.                                                              *)
(***************************************************************************)
CycleEnd ==
    /\ last_command' = << >>
    /\ last_eval' = << >>
    /\ UNCHANGED << gate_vars, client_vars, call_vars, life_vars, risk_vars,
                    positions_answered, retired >>
    /\ LET update == IF mt5_initialized
                     THEN emit_account_update(emitter_enabled, clock, last_account_update,
                                              emitted)
                     ELSE [last |-> last_account_update, emitted |-> emitted]
       IN  /\ last_account_update' = update.last
           /\ emitted' = update.emitted
    /\ UNCHANGED << emitter_enabled, clock >>
    /\ monitor_pc = "manage"
    /\ manage_todo = << >>
    /\ lock' = None
    /\ monitor_pc' = "wait"
    /\ last_order' = << >>
    /\ last_modify' = << >>
    /\ last_partial' = << >>
    /\ UNCHANGED << active_strategies, open_positions, exit_levels, broker, next_ticket,
                    price, cycle, todo, manage_todo, accepted, command_queue, command_pc,
                    mt5_initialized >>

(***************************************************************************)
(* The market and the terminal, between cycles: the price moves; a         *)
(* position is closed on the terminal's side (stop, target or by hand).    *)
(* run_cycle never yields between its first evaluation and the end of      *)
(* _manage_open_positions, which works on one get_positions snapshot.      *)
(***************************************************************************)
PriceMove(p) ==
    /\ last_command' = << >>
    /\ last_eval' = << >>
    /\ UNCHANGED aside_vars
    /\ monitor_pc # "eval" /\ monitor_pc # "manage"
    /\ p # price
    /\ price' = p
    /\ UNCHANGED << active_strategies, open_positions, lock, exit_levels, broker,
                    next_ticket, cycle, monitor_pc, todo, manage_todo,
                    accepted, last_order, last_modify, last_partial, command_queue,
                    command_pc, mt5_initialized >>

BrokerClose(t) ==
    /\ last_command' = << >>
    /\ last_eval' = << >>
    /\ UNCHANGED aside_vars
    /\ monitor_pc # "eval" /\ monitor_pc # "manage"
    /\ t \in DOMAIN broker
    /\ broker' = [ x \in DOMAIN broker \ {t} |-> broker[x] ]
    /\ UNCHANGED << active_strategies, open_positions, lock, exit_levels, next_ticket,
                    price, cycle, monitor_pc, todo, manage_todo, accepted,
                    last_order, last_modify, last_partial, command_queue, command_pc,
                    mt5_initialized >>

(***************************************************************************)
(* Payloads on the command queue.  well_formed: the payload validates as   *)
(* an ExecutorCommand.  config: the StrategyConfig that parameters         *)
(* validate to, or 0 when they do not validate.                            *)
(***************************************************************************)
CommandIds == {"s1"}

CommandPayloads ==
    { [well_formed |-> FALSE, command |-> "PING", strategyId |-> None, config |-> 0],
      [well_formed |-> TRUE, command |-> "PING", strategyId |-> None, config |-> 0],
      [well_formed |-> TRUE, command |-> "START_STRATEGY", strategyId |-> None, config |-> 0] }
    \cup [ well_formed : {TRUE}, command : {"START_STRATEGY"}, strategyId : CommandIds,
           config : CfgIds ]
    \cup [ well_formed : {TRUE}, command : {"STOP_STRATEGY"},
           strategyId : CommandIds \cup {None}, config : {0} ]

\* PusherCommandClient._handle_event puts a received payload on the queue.
Enqueue(payload) ==
    /\ Len(command_queue) < MaxQueue
    /\ command_queue' = Append(command_queue, payload)
    /\ last_command' = << >>
    /\ last_eval' = << >>
    /\ UNCHANGED aside_vars
    /\ UNCHANGED << active_strategies, open_positions, lock, exit_levels, broker,
                    next_ticket, price, cycle, monitor_pc, todo, manage_todo, accepted,
                    last_order, last_modify, last_partial, command_pc, mt5_initialized >>

\* StrategyExecutor.process_command raises: START_STRATEGY parameters that
\* StrategyConfig.model_validate rejects.
process_command_raises(command) ==
    command.command = "START_STRATEGY" /\ command.config = 0

(***************************************************************************)
(* One iteration of main._command_loop: the payload is taken off the       *)
(* queue; a payload that fails ExecutorCommand.model_validate is skipped;  *)
(* else process_command runs, outside any try, so its exception ends the   *)
(* task.                                                                   *)
(***************************************************************************)
CommandLoop ==
    /\ last_eval' = << >>
    /\ command_pc = "wait"
    /\ command_queue # << >>
    /\ LET payload == Head(command_queue)
       IN
       /\ command_queue' = Tail(command_queue)
       /\ last_command' =
              << [ payload |-> payload,
                   status_before |->
                       IF payload.strategyId \in Keys(active_strategies)
                       THEN Get(active_strategies, payload.strategyId).status
                       ELSE None ] >>
       /\ command_pc' = IF payload.well_formed /\ process_command_raises(payload)
                        THEN "crashed"
                        ELSE IF loop_goes_on(stop_event) THEN "wait" ELSE "done"
       /\ IF ~payload.well_formed
          THEN UNCHANGED << active_strategies, open_positions >>
          ELSE IF process_command_raises(payload)
          THEN UNCHANGED << active_strategies, open_positions >>
          ELSE IF payload.command = "START_STRATEGY"
          THEN start_strategy(payload.strategyId, payload.config)
          ELSE IF payload.command = "STOP_STRATEGY" /\ payload.strategyId # None
          THEN /\ stop_strategy(payload.strategyId)
               /\ UNCHANGED open_positions
          ELSE UNCHANGED << active_strategies, open_positions >>
    /\ UNCHANGED << lock, exit_levels, broker, next_ticket, price, cycle, monitor_pc, todo,
                    manage_todo, accepted, last_order, last_modify, last_partial,
                    mt5_initialized >>
    /\ UNCHANGED aside_vars

\* One run_cycle call.  Its steps are separate actions, so that whatever the
\* event loop may schedule beside a cycle is tried at every point of it.
RunCycle(max_cycles, max_tickets) ==
    \/ CycleBegin(max_cycles)
    \/ CycleStrategy(max_tickets)
    \/ ManageBegin
    \/ ManageStep
    \/ CycleEnd

(***************************************************************************)
(* The orchestrator with two strategies under a steady price: the API      *)
(* starts and stops strategies while the monitor loop runs cycles.         *)
(***************************************************************************)
Next ==
    \/ \E id \in StrategyIds, cfg \in CfgIds : ApiStart(id, cfg)
    \/ \E id \in StrategyIds : ApiStop(id)
    \/ RunCycle(MaxCycles, MaxTickets)
    \/ \E t \in Tickets : BrokerClose(t)

Spec == Init /\ [][Next]_vars

(***************************************************************************)
(* Exit management: one strategy whose positions are trailed and partly    *)
(* closed while the price moves between cycles.                            *)
(***************************************************************************)
InitExits ==
    /\ InitCommon
    /\ EmitterReady
    /\ GateOff
    /\ ClientIdle
    /\ CallIdle
    /\ price \in Prices
    /\ mt5_initialized = TRUE

NextExits ==
    \/ \E cfg \in CfgIds : ApiStart("s1", cfg)
    \/ RunCycle(MaxExitCycles, MaxExitTickets)
    \/ \E p \in Prices : PriceMove(p)
    \/ \E t \in Tickets : BrokerClose(t)

SpecExits == InitExits /\ [][NextExits]_vars

(***************************************************************************)
(* Reconciliation: the same runs with a terminal whose answer to           *)
(* mt5.positions_get may be None.                                          *)
(***************************************************************************)
NextReconcile ==
    \/ \E cfg \in CfgIds : ApiStart("s1", cfg)
    \/ CycleBegin(MaxExitCycles)
    \/ CycleStrategy(MaxExitTickets)
    \/ ManageBeginOn(BOOLEAN)
    \/ ManageStep
    \/ CycleEnd
    \/ \E p \in Prices : PriceMove(p)
    \/ \E t \in Tickets : BrokerClose(t)

SpecReconcile == InitExits /\ [][NextReconcile]_vars

(***************************************************************************)
(* Retirement: a strategy whose exit level closes a position out, on a     *)
(* host whose emitter may be disabled, whose store may fail and whose      *)
(* terminal may fail to answer.                                            *)
(***************************************************************************)
InitRetire ==
    /\ InitCommon
    /\ emitter_enabled \in BOOLEAN
    /\ GateOff
    /\ ClientIdle
    /\ CallIdle
    /\ price \in Prices
    /\ mt5_initialized = TRUE

NextRetire ==
    \/ \E cfg \in ExitAllCfgIds : ApiStart("s1", cfg)
    \/ CycleBegin(MaxRetireCycles)
    \/ CycleStrategy(MaxExitTickets)
    \/ ManageBeginOn(BOOLEAN)
    \/ ManageStepOn(BOOLEAN)
    \/ CycleEnd
    \/ \E p \in Prices : PriceMove(p)
    \/ \E t \in Tickets : BrokerClose(t)

SpecRetire == InitRetire /\ [][NextRetire]_vars

(***************************************************************************)
(* Exit management of a strategy that the API may stop while its position  *)
(* is open, under the config whose ladder is not listed in priority order. *)
(***************************************************************************)
NextLadder ==
    \/ \E cfg \in LadderCfgIds : ApiStart("s1", cfg)
    \/ ApiStop("s1")
    \/ RunCycle(MaxExitCycles, MaxExitTickets)
    \/ \E p \in Prices : PriceMove(p)
    \/ \E t \in Tickets : BrokerClose(t)

SpecLadder == InitExits /\ [][NextLadder]_vars

(***************************************************************************)
(* START_STRATEGY commands for one id arriving while its strategy trades.  *)
(***************************************************************************)
StartPayloads ==
    { payload \in CommandPayloads :
        /\ payload.well_formed
        /\ payload.command = "START_STRATEGY"
        /\ payload.strategyId # None }

NextRestart ==
    \/ \E payload \in StartPayloads : Enqueue(payload)
    \/ CommandLoop
    \/ RunCycle(MaxExitCycles, MaxExitTickets)

SpecRestart == Init /\ [][NextRestart]_vars

(***************************************************************************)
(* The command loop beside the monitor loop, on a host whose terminal      *)
(* failed to initialize: cycles evaluate strategies and place no order.    *)
(***************************************************************************)
InitCommands ==
    /\ InitCommon
    /\ EmitterReady
    /\ GateOff
    /\ ClientIdle
    /\ CallIdle
    /\ price = 11
    /\ mt5_initialized = FALSE

NextCommands ==
    \/ \E payload \in CommandPayloads : Enqueue(payload)
    \/ CommandLoop
    \/ \E id \in CommandIds, cfg \in CfgIds : ApiStart(id, cfg)
    \/ \E id \in CommandIds : ApiStop(id)
    \/ CycleBegin(MaxCycles)
    \/ CycleStrategy(MaxTickets)
    \/ ManageBegin
    \/ CycleEnd

SpecCommands == InitCommands /\ [][NextCommands]_vars

(***************************************************************************)
(* Shutdown, main.lifespan's finally block: stop_event is set, the two     *)
(* loop tasks are awaited with asyncio.gather, then the terminal           *)
(* connection is shut down.                                                *)
(***************************************************************************)
\* A loop task is done: its loop has ended, or an exception has ended it.
Finished == {"done", "crashed"}

\* `await asyncio.gather(*tasks, return_exceptions=True)` returns.
gathered == monitor_pc \in Finished /\ command_pc \in Finished

\* What the shutdown steps leave alone.
ShutdownFrame ==
    /\ last_command' = << >>
    /\ last_eval' = << >>
    /\ UNCHANGED << gate_vars, client_vars, call_vars, emit_vars, risk_vars,
                    positions_answered, retired >>
    /\ UNCHANGED << active_strategies, open_positions, lock, exit_levels, broker,
                    next_ticket, price, cycle, todo, manage_todo, accepted, last_order,
                    last_modify, last_partial, command_queue >>

\* The server leaves the lifespan context: stop_event.set().
ShutdownRequest ==
    /\ lifespan_pc = "serving"
    /\ stop_event' = TRUE
    /\ lifespan_pc' = "gathering"
    /\ ShutdownFrame
    /\ UNCHANGED << monitor_pc, command_pc, mt5_initialized >>

\* _monitor_loop, between cycles, finds stop_event set and returns.
MonitorExit ==
    /\ monitor_pc = "wait"
    /\ ~loop_goes_on(stop_event)
    /\ monitor_pc' = "done"
    /\ ShutdownFrame
    /\ UNCHANGED << stop_event, lifespan_pc, command_pc, mt5_initialized >>

\* _command_loop, between commands, finds stop_event set and returns.
CommandExit ==
    /\ command_pc = "wait"
    /\ ~loop_goes_on(stop_event)
    /\ command_pc' = "done"
    /\ ShutdownFrame
    /\ UNCHANGED << stop_event, lifespan_pc, monitor_pc, mt5_initialized >>

\* gather has returned: mt5_client.shutdown() releases the connection.
ReleaseConnection ==
    /\ lifespan_pc = "gathering"
    /\ gathered
    /\ mt5_initialized' = FALSE
    /\ lifespan_pc' = "closed"
    /\ ShutdownFrame
    /\ UNCHANGED << stop_event, monitor_pc, command_pc >>

\* The commands that arrive while the server shuts down.
ShutdownPayloads ==
    { payload \in CommandPayloads :
        payload.well_formed /\ payload.command \in {"PING", "STOP_STRATEGY"} }

\* One strategy trading and commands arriving while the server may shut down.
NextShutdown ==
    \/ ApiStart("s1", 1)
    \/ \E payload \in ShutdownPayloads : Enqueue(payload)
    \/ CommandLoop
    \/ RunCycle(MaxShutdownCycles, MaxExitTickets)
    \/ ShutdownRequest
    \/ MonitorExit
    \/ CommandExit
    \/ ReleaseConnection

SpecShutdown == Init /\ [][NextShutdown]_vars

(***************************************************************************)
(* The same under the scheduling the event loop gives: a cycle that has    *)
(* begun runs on, since every call to the terminal returns; a loop waiting *)
(* in asyncio.wait_for is woken by the event or by its timeout.  Nothing   *)
(* obliges the server to shut down, a command to arrive or a new cycle to  *)
(* begin.                                                                  *)
(***************************************************************************)
SpecShutdownFair ==
    /\ SpecShutdown
    /\ WF_vars(CycleStrategy(MaxExitTickets))
    /\ WF_vars(ManageBegin)
    /\ WF_vars(ManageStep)
    /\ WF_vars(CycleEnd)
    /\ WF_vars(MonitorExit)
    /\ WF_vars(CommandExit)

(***************************************************************************)
(* The emitter of account updates, core/pusher_emitter.py: run_cycle asks  *)
(* for an update at the end of every cycle, other callers at any time,     *)
(* while the clock advances.                                               *)
(***************************************************************************)
\* What the emitter's own steps leave alone.
EmitterFrame ==
    /\ last_command' = << >>
    /\ last_eval' = << >>
    /\ UNCHANGED << gate_vars, client_vars, call_vars, life_vars, risk_vars,
                    positions_answered, retired >>
    /\ UNCHANGED << active_strategies, open_positions, lock, exit_levels, broker,
                    next_ticket, price, cycle, monitor_pc, todo, manage_todo, accepted,
                    last_order, last_modify, last_partial, command_queue, command_pc,
                    mt5_initialized >>

\* main.lifespan calls pusher_emitter.initialize with the credentials set.
PusherInitialize ==
    /\ ~emitter_enabled
    /\ emitter_enabled' = TRUE
    /\ EmitterFrame
    /\ UNCHANGED << last_account_update, clock, emitted >>

\* Half a second passes.
ClockTick ==
    /\ clock < OneSecond + MaxClock
    /\ clock' = clock + 1
    /\ EmitterFrame
    /\ UNCHANGED << emitter_enabled, last_account_update, emitted >>

\* A caller other than run_cycle calls emit_account_update.
EmitAccountUpdate ==
    /\ LET update == emit_account_update(emitter_enabled, clock, last_account_update,
                                         emitted)
       IN  /\ last_account_update' = update.last
           /\ emitted' = update.emitted
    /\ EmitterFrame
    /\ UNCHANGED << emitter_enabled, clock >>

InitEmitter ==
    /\ InitCommon
    /\ GateOff
    /\ ClientIdle
    /\ CallIdle
    /\ emitter_enabled = FALSE
    /\ price = 11
    /\ mt5_initialized = TRUE

NextEmitter ==
    \/ PusherInitialize
    \/ ClockTick
    \/ EmitAccountUpdate
    \/ CycleBegin(MaxEmitCycles)
    \/ ManageBegin
    \/ CycleEnd

SpecEmitter == InitEmitter /\ [][NextEmitter]_vars

(***************************************************************************)
(* The advisory gate, ai/supervisor.py.                                    *)
(*                                                                         *)
(* A Decision's suggestions field holds whatever the JSON answer carried:  *)
(* is_list tells a JSON array from any other non-empty value.              *)
(***************************************************************************)
CautionNote == "Supervisor recommended caution; running in observe mode"

NoSuggestions == [is_list |-> TRUE, items |-> << >>]

Decision(action, reason, risks, suggestions) ==
    [action |-> action, reason |-> reason, risks |-> risks, suggestions |-> suggestions]

\* Supervisor.enabled.
enabled(sup) ==
    /\ sup.mode # "off"
    /\ ~(sup.provider = "openrouter" /\ ~sup.api_key)
    /\ ~(sup.provider = "openai" /\ ~sup.api_key)

(***************************************************************************)
(* What the provider call comes back with: it fails (timeout, HTTP error,  *)
(* unexpected body), or it yields the message content, which is either not *)
(* JSON or a JSON object whose keys hold what the service chose to send.   *)
(* action "missing": the object has no action key.                         *)
(***************************************************************************)
SuggestionValues ==
    { NoSuggestions,
      [is_list |-> TRUE, items |-> << "reduce size" >>],
      [is_list |-> FALSE, items |-> << >>] }

LLMAnswers ==
    { [kind |-> "error", action |-> "missing", risks |-> << >>, suggestions |-> NoSuggestions],
      [kind |-> "text", action |-> "missing", risks |-> << >>, suggestions |-> NoSuggestions] }
    \cup [ kind : {"json"}, action : {"missing", "allow", "deny", "require_confirmation"},
           risks : { << >>, << "spread" >> }, suggestions : SuggestionValues ]

\* Supervisor._parse_decision: the keys are taken as they come.
parse_decision(content) ==
    IF content.kind = "json"
    THEN Decision(IF content.action = "missing" THEN "allow" ELSE content.action,
                  "", content.risks, content.suggestions)
    ELSE Decision("allow", "Non-JSON LLM response", << >>, NoSuggestions)

\* list.insert(0, note); any other value has no insert method, so the call raises.
insert_first(suggestions, note) ==
    [suggestions EXCEPT !.items = << note >> \o @]

(***************************************************************************)
(* Supervisor.evaluate after _call_llm has come back with answer: the      *)
(* outcome, a returned Decision or a raised exception.                     *)
(***************************************************************************)
evaluate_answer(sup, answer) ==
    IF answer.kind = "error"
    THEN [ raised |-> FALSE,
           decision |-> Decision(IF sup.mode = "enforce" THEN "require_confirmation"
                                 ELSE "allow",
                                 "LLM supervisor unavailable", << "llm_unavailable" >>,
                                 [is_list |-> TRUE,
                                  items |-> << "Check LLM provider configuration",
                                               "Reduce dependency on external gating" >>]) ]
    ELSE LET decision == parse_decision(answer)
         IN  IF sup.mode = "enforce"
             THEN [raised |-> FALSE, decision |-> decision]
             ELSE IF decision.action \in {"deny", "require_confirmation"}
             THEN IF decision.suggestions.is_list
                  THEN [ raised |-> FALSE,
                         decision |-> [decision EXCEPT
                                          !.action = "allow",
                                          !.suggestions = insert_first(@, CautionNote)] ]
                  ELSE [ raised |-> TRUE,
                         decision |-> [decision EXCEPT !.action = "allow"] ]
             ELSE [raised |-> FALSE, decision |-> decision]

\* Supervisor.evaluate is called: a disabled gate answers at once, a gate
\* without provider answers from _call_llm's else branch; else the call to
\* the provider is awaited.
GateEvaluate ==
    /\ gate_pc = "idle"
    /\ IF ~enabled(supervisor)
       THEN /\ gate_result' =
                   << [ answer |-> << >>, raised |-> FALSE,
                        decision |-> Decision("allow", "Supervisor disabled or not configured",
                                              << >>, NoSuggestions) ] >>
            /\ UNCHANGED gate_pc
       ELSE /\ gate_pc' = "awaiting"
            /\ gate_result' = << >>
    /\ UNCHANGED << supervisor, executor_vars, client_vars, call_vars >>

\* The awaited _call_llm finishes and evaluate runs to its end.
GateAnswer(answer) ==
    /\ gate_pc = "awaiting"
    /\ gate_pc' = "idle"
    /\ gate_result' =
           IF supervisor.provider = "none"
           THEN << [ answer |-> << >>,
                     raised |-> FALSE,
                     decision |-> Decision("allow", "No LLM provider configured",
                                           << >>, NoSuggestions) ] >>
           ELSE LET outcome == evaluate_answer(supervisor, answer)
                IN  << [ answer |-> << answer >>, raised |-> outcome.raised,
                         decision |-> outcome.decision ] >>
    /\ UNCHANGED << supervisor, executor_vars, client_vars, call_vars >>

InitGate ==
    /\ InitCommon
    /\ EmitterReady
    /\ price = 11
    /\ mt5_initialized = FALSE
    /\ supervisor \in [ mode : {"observe", "enforce", "off"},
                        provider : {"openrouter", "openai", "none"},
                        api_key : BOOLEAN ]
    /\ GateIdle
    /\ ClientIdle
    /\ CallIdle

NextGate ==
    \/ GateEvaluate
    \/ \E answer \in LLMAnswers : GateAnswer(answer)

SpecGate == InitGate /\ [][NextGate]_vars

(***************************************************************************)
(* The client of the platform's advisory endpoint                          *)
(* (core/supervisor_client.py): a TTL cache in front of one POST.          *)
(***************************************************************************)
\* TTLCache.get: the live value under key, or None; an expired entry is popped.
TTLCache_get(store, key, t) ==
    IF store[key] = << >>
    THEN [value |-> << >>, store |-> store]
    ELSE IF t > store[key][1].expires_at
         THEN [value |-> << >>, store |-> [store EXCEPT ![key] = << >>]]
         ELSE [value |-> << store[key][1].value >>, store |-> store]

\* TTLCache.set
TTLCache_set(store, key, value, ttl_ms, t) ==
    [store EXCEPT ![key] = << [value |-> value, expires_at |-> t + ttl_ms] >>]

\* What the endpoint can do with one POST: no answer within the timeout, or
\* an answer with a status code and a JSON body; the body's ttlMs may be missing.
ServiceResponses ==
    [ kind : {"timeout"}, status_code : {0},
      data : {[action |-> "allow", risks |-> << >>, ttlMs |-> << >>]} ]
    \cup
    [ kind : {"response"}, status_code : {200, 500},
      data : [ action : {"allow", "deny"}, risks : {<< >>},
               ttlMs : {<< >>} \cup { << n >> : n \in (0 - 1)..MaxTtl } ] ]

\* The decision evaluate makes up when the endpoint answers with an error status.
FailOpen == [action |-> "allow", risks |-> << "supervisor_unavailable" >>, ttlMs |-> << >>]

\* data.get("ttlMs", 0)
ttl_ms_of(data) == IF data.ttlMs = << >> THEN 0 ELSE data.ttlMs[1]

\* SupervisorClient.evaluate, with the endpoint's behaviour as input: a live
\* cache entry is returned with the flag cached; else the POST is made, its
\* timeout is not caught, an error status is answered with FailOpen, and a
\* 200 body is returned and cached for its ttlMs when that is positive.
ClientEvaluate(context, response) ==
    LET key == cache_key(context)
        looked == TTLCache_get(cache_store, key, now)
        outcome(called, raised, returned) ==
            << [ context |-> context, entry_before |-> cache_store[key],
                 called |-> called, raised |-> raised,
                 response |-> IF called THEN << response >> ELSE << >>,
                 returned |-> returned ] >>
    IN  /\ IF looked.value # << >>
           THEN /\ cache_store' = looked.store
                /\ client_result' =
                       outcome(FALSE, FALSE, << [data |-> looked.value[1], cached |-> TRUE] >>)
           ELSE IF response.kind = "timeout"
           THEN /\ cache_store' = looked.store
                /\ client_result' = outcome(TRUE, TRUE, << >>)
           ELSE IF response.status_code # 200
           THEN /\ cache_store' = looked.store
                /\ client_result' =
                       outcome(TRUE, FALSE, << [data |-> FailOpen, cached |-> FALSE] >>)
           ELSE /\ cache_store' =
                       IF ttl_ms_of(response.data) > 0
                       THEN TTLCache_set(looked.store, key, response.data,
                                         ttl_ms_of(response.data), now)
                       ELSE looked.store
                /\ client_result' =
                       outcome(TRUE, FALSE, << [data |-> response.data, cached |-> FALSE] >>)
        /\ UNCHANGED << now, executor_vars, gate_vars, call_vars >>

\* A millisecond passes.
Tick ==
    /\ now < MaxTime
    /\ now' = now + 1
    /\ client_result' = << >>
    /\ UNCHANGED << cache_store, executor_vars, gate_vars, call_vars >>

InitClient ==
    /\ InitCommon
    /\ EmitterReady
    /\ GateOff
    /\ ClientIdle
    /\ CallIdle
    /\ price = 11
    /\ mt5_initialized = FALSE

NextClient ==
    \/ \E context \in Contexts, response \in ServiceResponses :
           ClientEvaluate(context, response)
    \/ Tick

SpecClient == InitClient /\ [][NextClient]_vars

(***************************************************************************)
(* The condition evaluator (core/condition_evaluator.py), applied once to  *)
(* a list of conditions, a logic and an indicator snapshot.                *)
(***************************************************************************)
\* An operand of a comparison: a number, or the name of an indicator.
Number(n) == [is_name |-> FALSE, name |-> "", number |-> n]
Named(name) == [is_name |-> TRUE, name |-> name, number |-> 0]

\* A condition as the platform sends it; _mtf is the metadata normalize_rules
\* attaches to a confirmation, and nested is the condition under the key "and".
Condition(indicator, comparator, value, description, mtf, nested) ==
    [ indicator |-> indicator, condition |-> comparator, value |-> value,
      description |-> description, _mtf |-> mtf, nested |-> nested ]

NoMtf == << >>

\* normalize_rules: a confirmation {timeframe, required, condition} becomes
\* its condition with the metadata under _mtf.
merged(conf) ==
    [ conf.condition EXCEPT
        !._mtf = << [timeframe |-> conf.timeframe, required |-> conf.required] >> ]

EntryConditions ==
    { Condition("RSI", "greater_than", Named("close"), "", NoMtf, << >>),
      Condition("RSI", "less_than", Named("close"), "", NoMtf, << >>),
      Condition("RSI", "crosses_above", Named("close"), "", NoMtf, << >>),
      Condition("RSI", "crosses_below", Named("close"), "Sell on cross", NoMtf, << >>),
      Condition("price", "greater_than", Number(1), "", NoMtf, << >>),
      merged([ timeframe |-> "H1", required |-> TRUE,
               condition |-> Condition("RSI", "greater_than", Named("close"), "",
                                       NoMtf, << >>) ]),
      Condition("RSI", "greater_than", Number(1), "", NoMtf,
                << Condition("price", "less_than", Named("rsi"), "", NoMtf, << >>) >>) }

\* The lists of at most MaxConditions conditions.
ConditionLists ==
    UNION { [ 1..n -> EntryConditions ] : n \in 0..MaxConditions }

\* An indicator snapshot: indicator name -> value, or None when the indicator
\* could not be calculated.
Levels == 1..MaxLevel
Snapshots == [ rsi : {<< >>} \cup { << v >> : v \in Levels }, close : { << v >> : v \in Levels } ]
PreviousSnapshots == [ rsi : { << v >> : v \in Levels }, close : { << v >> : v \in Levels } ]

\* str.lower and str.upper on the names that occur.
Lower(name) == IF name = "RSI" THEN "rsi" ELSE name
Upper(name) == IF name = "and" THEN "AND" ELSE IF name = "or" THEN "OR" ELSE name

\* indicators.get(name)
Lookup(indicators, name) ==
    IF name \in DOMAIN indicators THEN indicators[name] ELSE << >>

\* ConditionEvaluator._resolve_value
resolve_value(value, indicators) ==
    IF value.is_name
    THEN Lookup(indicators, Lower(value.name))
    ELSE << value.number >>

\* ConditionEvaluator._evaluate_condition
evaluate_condition(condition, indicators) ==
    LET first == Lookup(indicators, Lower(condition.indicator))
        indicator_value ==
            IF first = << >> /\ Lower(condition.indicator) = "price"
            THEN Lookup(indicators, "close")
            ELSE first
        comparison_value == resolve_value(condition.value, indicators)
    IN  IF indicator_value = << >> \/ comparison_value = << >>
        THEN FALSE
        ELSE CASE condition.condition = "greater_than" ->
                      indicator_value[1] > comparison_value[1]
               [] condition.condition = "less_than" ->
                      indicator_value[1] < comparison_value[1]
               [] condition.condition = "crosses_above" ->
                      indicator_value[1] > comparison_value[1]
               [] condition.condition = "crosses_below" ->
                      indicator_value[1] < comparison_value[1]
               [] OTHER -> FALSE

\* One entry of evaluate's list matches: the condition and, when it holds,
\* the condition under its key "and".
condition_matches(condition, indicators) ==
    LET result == evaluate_condition(condition, indicators)
    IN  IF condition.nested # << >> /\ result
        THEN result /\ evaluate_condition(condition.nested[1], indicators)
        ELSE result

\* ConditionEvaluator._resolve_direction
resolve_direction(conditions) ==
    IF \E i \in DOMAIN conditions : conditions[i].description \in {"Sell on cross"}
    THEN "SELL"
    ELSE "BUY"

\* ConditionEvaluator.evaluate: None, "BUY" or "SELL".
evaluate(conditions, logic, indicators) ==
    LET matches == [ i \in DOMAIN conditions |-> condition_matches(conditions[i], indicators) ]
        signal == IF Upper(logic) = "AND"
                  THEN all(matches)
                  ELSE any(matches)
    IN  IF ~signal THEN None ELSE resolve_direction(conditions)

\* The call evaluate(conditions, logic, indicators, candles) is made; previous
\* is the snapshot of the sample before, which the candles hold.
EvaluateEntry ==
    /\ call_args # << >>
    /\ call_result = << >>
    /\ call_result' = << evaluate(call_args[1].conditions, call_args[1].logic,
                                 call_args[1].indicators) >>
    /\ UNCHANGED << call_args, executor_vars, gate_vars, client_vars >>

InitConditions ==
    /\ InitCommon
    /\ EmitterReady
    /\ GateOff
    /\ ClientIdle
    /\ price = 11
    /\ mt5_initialized = FALSE
    /\ call_args \in { << a >> : a \in [ conditions : ConditionLists, logic : {"AND", "OR"},
                                        indicators : Snapshots,
                                        previous : PreviousSnapshots ] }
    /\ call_result = << >>

NextConditions == EvaluateEntry

SpecConditions == InitConditions /\ [][NextConditions]_vars

(***************************************************************************)
(* Position sizing (core/dynamic_risk.py, core/risk_manager.py), applied   *)
(* once.  Lots are in thousandths, ATR in thousandths of a price unit,     *)
(* percentages in whole percent; a call returns a lot or raises.           *)
(***************************************************************************)
Returned(lot) == [raised |-> FALSE, lot |-> lot]
Raised == [raised |-> TRUE, lot |-> 0]

\* The history DynamicRiskManager._kelly needs before it computes a fraction.
KellyMinTrades == 20

\* DynamicRiskManager._clamp
clamp(lot, config) == Max(config.minLotSize, Min(lot, config.maxLotSize))

\* DynamicRiskManager._kelly.  history holds what _kelly reads of
\* trade_history: its length, the numbers of winning and losing trades and
\* their mean sizes.  (win_rate * b - q) / b is written over one denominator;
\* the fraction is kept in hundredths of a percent.
kelly(history, account_info, config) ==
    IF history.count < KellyMinTrades
    THEN Returned(config.minLotSize)
    ELSE IF history.wins = 0 \/ history.losses = 0
    THEN Returned(config.minLotSize)
    ELSE LET quarter == (2500 * (history.wins * history.avg_win
                                   - (history.count - history.wins) * history.avg_loss))
                            \div (history.count * history.avg_win)
             kelly_fraction == Max(0, Min(quarter, 1000))
         IN  IF config.contractValue = 0
             THEN Raised
             ELSE LET risk_amount == (account_info.equity * kelly_fraction) \div 10000
                  IN  Returned(clamp((risk_amount * 1000) \div config.contractValue,
                                     config))

\* DynamicRiskManager._atr_based; float(None) raises.
atr_based(account_info, config, market) ==
    IF market.atr = << >>
    THEN Raised
    ELSE LET stop_distance == market.atr[1] * config.atrMultiplier
         IN  IF stop_distance <= 0
             THEN Returned(clamp(config.minLotSize, config))
             ELSE IF config.contractValue = 0
             THEN Raised
             ELSE LET risk_amount ==
                          (account_info.equity * config.accountRiskPercentage) \div 100
                      position_value == (risk_amount * 1000) \div stop_distance
                  IN  Returned(clamp((position_value * 1000) \div config.contractValue,
                                     config))

\* DynamicRiskManager._volatility_based; a zero reading counts as 1.0.
volatility_based(account_info, config, market) ==
    LET current_vol == IF market.volatility = 0 THEN 1 ELSE market.volatility
        normal_vol == IF config.normalVolatility = 0 THEN 1 ELSE config.normalVolatility
    IN  Returned(clamp((config.baseLotSize * normal_vol) \div current_vol, config))

\* DynamicRiskManager._equity_based
equity_based(account_info, config) ==
    IF config.contractValue = 0
    THEN Raised
    ELSE Returned(clamp((account_info.equity * config.equityPercentage * 1000)
                            \div (100 * config.contractValue), config))

\* DynamicRiskManager.calculate_position_size; lotSize 0 stands for a missing key.
dynamic_position_size(history, account_info, config, market) ==
    CASE config.method = "kelly_criterion" -> kelly(history, account_info, config)
      [] config.method = "atr_based" -> atr_based(account_info, config, market)
      [] config.method = "volatility_based" -> volatility_based(account_info, config, market)
      [] config.method = "account_equity" -> equity_based(account_info, config)
      [] OTHER -> Returned(IF config.lotSize = 0 THEN 10 ELSE config.lotSize)

\* The riskManagement rules that carry the same limits as a sizing config.
risk_rules_of(config) ==
    [ lotSize |-> config.lotSize, riskPercentage |-> config.accountRiskPercentage,
      pipValue |-> 10, stopLossPips |-> config.stopLossPips,
      minLot |-> config.minLotSize, maxLot |-> config.maxLotSize ]

\* StrategyExecutor._execute_trade's choice of the sizing: DynamicRiskManager
\* when dynamicRisk.enabled, else RiskManager.
size_position(args) ==
    IF args.config.enabled
    THEN dynamic_position_size(args.history, args.account_info, args.config, args.market)
    ELSE Returned(calculate_position_size(args.account_info.balance,
                                          risk_rules_of(args.config)))

SizingConfigs ==
    [ enabled : BOOLEAN,
      method : {"fixed", "kelly_criterion", "atr_based", "volatility_based",
                "account_equity"},
      lotSize : {0, 100, 200}, minLotSize : {10, 50}, maxLotSize : {100},
      contractValue : {0, 10000}, atrMultiplier : {2}, accountRiskPercentage : {1},
      baseLotSize : {100}, normalVolatility : {1}, equityPercentage : {1},
      stopLossPips : {0, 30} ]

\* Trade histories: too short, long enough with wins only, with a positive
\* and with a negative Kelly fraction.
TradeHistories ==
    { [count |-> KellyMinTrades - 1, wins |-> 10, losses |-> 9, avg_win |-> 2, avg_loss |-> 1],
      [count |-> KellyMinTrades, wins |-> KellyMinTrades, losses |-> 0, avg_win |-> 2, avg_loss |-> 0],
      [count |-> KellyMinTrades, wins |-> 12, losses |-> 8, avg_win |-> 2, avg_loss |-> 1],
      [count |-> KellyMinTrades, wins |-> 5, losses |-> 15, avg_win |-> 1, avg_loss |-> 1] }

SizingArgs ==
    [ config : SizingConfigs, history : TradeHistories,
      account_info : { [equity |-> e, balance |-> e] : e \in {0, AccountBalance} },
      market : [ atr : {<< >>} \cup { << a >> : a \in 0..MaxAtr }, volatility : 0..MaxAtr ] ]

\* The sizing call of _execute_trade is made.
SizePosition ==
    /\ call_args # << >>
    /\ call_result = << >>
    /\ call_result' = << size_position(call_args[1]) >>
    /\ UNCHANGED << call_args, executor_vars, gate_vars, client_vars >>

InitSizing ==
    /\ InitCommon
    /\ EmitterReady
    /\ GateOff
    /\ ClientIdle
    /\ price = 11
    /\ mt5_initialized = FALSE
    /\ call_args \in { << a >> : a \in SizingArgs }
    /\ call_result = << >>

NextSizing == SizePosition

SpecSizing == InitSizing /\ [][NextSizing]_vars

(***************************************************************************)
(* One strategy's turn in run_cycle, _evaluate_strategy followed by        *)
(* _execute_trade, as a function of what the filters and the terminal      *)
(* answer: which filters are consulted, and the order request that leaves. *)
(***************************************************************************)
\* The gating filters in the order in which the orchestrator consults them.
FilterOrder == << "multi_timeframe", "news", "correlation", "session", "volatility", "spread" >>

\* What a filter answers when it is consulted: passed or not.
filter_passed(config, answers, name) ==
    CASE name = "multi_timeframe" -> answers.mtf_confirmed
      [] name = "news" -> ~answers.news_blackout
      [] name = "correlation" ->
             check_correlation(config.correlationFilter, answers.high_corr).passed
      [] name = "session" -> answers.session_ok
      [] name = "volatility" -> answers.volatility_passed
      [] name = "spread" ->
             SpreadFilterCheck(config.spreadFilter, answers.info_exec, answers.spread).passed

\* The filters consulted during the turn: _evaluate_strategy returns at the
\* first gate that does not pass, and _execute_trade, which consults the
\* spread filter first, is called only with a signal.
consulted_filters(config, answers, outcome) ==
    LET gates == SubSeq(FilterOrder, 1, 5)
        blocking == { i \in DOMAIN gates : ~filter_passed(config, answers, gates[i]) }
        last == IF blocking = {} THEN Len(gates)
                ELSE CHOOSE i \in blocking : \A j \in blocking : i <= j
    IN  IF ~answers.candles_ok THEN << >>
        ELSE IF outcome = "signal" THEN FilterOrder
        ELSE SubSeq(gates, 1, last)

\* The whole turn.
run_strategy(config, answers) ==
    LET gates_ok == /\ answers.mtf_confirmed /\ ~answers.news_blackout
                    /\ answers.session_ok /\ answers.volatility_passed
        outcome == evaluate_strategy(config, answers.candles_ok, gates_ok, answers.high_corr,
                                     answers.signal_holds, answers.info_eval)
        correlation_action == check_correlation(config.correlationFilter, answers.high_corr)
        spread_result == SpreadFilterCheck(config.spreadFilter, answers.info_exec,
                                           answers.spread)
    IN  [ outcome |-> outcome,
          consulted |-> consulted_filters(config, answers, outcome),
          sent |-> /\ outcome = "signal"
                   /\ sends_order(config, AccountBalance, correlation_action, spread_result,
                                  answers.info_exec),
          lot_size |-> trade_lot_size(config, AccountBalance, correlation_action,
                                      spread_result) ]

\* The configured strategies with a spread reduceFactor below, within and
\* above the limits the filter keeps it in.
FilterConfigs ==
    { [ Configs[c] EXCEPT !.spreadFilter.reduceFactor = f ] : c \in CfgIds, f \in {5, 50, 150} }

FilterAnswers ==
    [ candles_ok : BOOLEAN, mtf_confirmed : BOOLEAN, news_blackout : BOOLEAN,
      high_corr : BOOLEAN, session_ok : BOOLEAN, volatility_passed : BOOLEAN,
      signal_holds : BOOLEAN, info_eval : BOOLEAN, info_exec : BOOLEAN, spread : Spreads ]

\* The strategy's turn is taken.
RunStrategy ==
    /\ call_args # << >>
    /\ call_result = << >>
    /\ call_result' = << run_strategy(call_args[1].config, call_args[1].answers) >>
    /\ UNCHANGED << call_args, executor_vars, gate_vars, client_vars >>

InitFilters ==
    /\ InitCommon
    /\ EmitterReady
    /\ GateOff
    /\ ClientIdle
    /\ price = 11
    /\ mt5_initialized = TRUE
    /\ call_args \in { << a >> : a \in [ config : FilterConfigs, answers : FilterAnswers ] }
    /\ call_result = << >>

NextFilters == RunStrategy

SpecFilters == InitFilters /\ [][NextFilters]_vars

(***************************************************************************)
(* utils/retry.py and the platform reports of core/platform_api.py.        *)
(* What one call of a wrapped coroutine does: it returns a value, raises   *)
(* an exception of the wrapper's `exceptions`, or raises another one.      *)
(***************************************************************************)
Return(value) == [kind |-> "return", value |-> value]
RaiseListed == [kind |-> "raise_listed", value |-> None]
RaiseOther == [kind |-> "raise_other", value |-> None]

\* async_retry's loop from the given attempt on: the attempts made, the
\* delays slept between them, and how the wrapper ends.
RECURSIVE retry_from(_, _, _, _, _, _, _)
retry_from(calls, attempt, delay, slept, max_attempts, max_delay, exponential_base) ==
    LET call == calls[attempt]
    IN  IF call.kind # "raise_listed" \/ attempt = max_attempts
        THEN [attempts |-> attempt, delays |-> slept, outcome |-> call]
        ELSE retry_from(calls, attempt + 1, Min(delay * exponential_base, max_delay),
                        Append(slept, delay), max_attempts, max_delay, exponential_base)

(***************************************************************************)
(* The wrapper async_retry builds: `for attempt in range(1, max_attempts   *)
(* + 1)`; with no attempt to make it falls through and returns None.       *)
(***************************************************************************)
async_retry(max_attempts, initial_delay, max_delay, exponential_base, calls) ==
    IF max_attempts < 1
    THEN [attempts |-> 0, delays |-> << >>, outcome |-> Return(None)]
    ELSE retry_from(calls, 1, initial_delay, << >>, max_attempts, max_delay,
                    exponential_base)

\* async_retry's defaults for max_delay and exponential_base.
DefaultMaxDelay == 60
DefaultExponentialBase == 2

\* What the POST of one attempt does.
PostOutcomes == {"ok", "network_error", "status_error"}

(***************************************************************************)
(* The body of WebPlatformAPI.report_trade and send_heartbeat for one      *)
(* attempt: False when the platform is not configured; True when the POST  *)
(* and raise_for_status go through; any exception is caught in the body    *)
(* and turned into False.                                                  *)
(***************************************************************************)
report_body(configured, post) ==
    IF ~configured THEN Return(FALSE)
    ELSE IF post = "ok" THEN Return(TRUE)
    ELSE Return(FALSE)

\* The max_attempts the two reports are decorated with.
ReportTradeAttempts == 3
HeartbeatAttempts == 2

max_attempts_of(name) ==
    IF name = "report_trade" THEN ReportTradeAttempts ELSE HeartbeatAttempts

\* One decorated report, with what the POST of each attempt would do.
platform_report(name, configured, posts) ==
    async_retry(max_attempts_of(name), 1, DefaultMaxDelay, DefaultExponentialBase,
                [ i \in DOMAIN posts |-> report_body(configured, posts[i]) ])

ReportArgs ==
    [ name : {"report_trade", "send_heartbeat"}, configured : BOOLEAN,
      posts : [ 1..MaxPosts -> PostOutcomes ] ]

\* The report is awaited.
PlatformReport ==
    /\ call_args # << >>
    /\ call_result = << >>
    /\ call_result' = << platform_report(call_args[1].name, call_args[1].configured,
                                         call_args[1].posts) >>
    /\ UNCHANGED << call_args, executor_vars, gate_vars, client_vars >>

InitReports ==
    /\ InitCommon
    /\ EmitterReady
    /\ GateOff
    /\ ClientIdle
    /\ price = 11
    /\ mt5_initialized = TRUE
    /\ call_args \in { << a >> : a \in ReportArgs }
    /\ call_result = << >>

NextReports == PlatformReport

SpecReports == InitReports /\ [][NextReports]_vars

(***************************************************************************)
(* utils/retry.py on its own: a wrapper built with any max_attempts,       *)
(* delays and base, around a coroutine whose calls return, raise a listed  *)
(* exception or raise another one.  sync_retry runs the same loop with     *)
(* time.sleep.                                                             *)
(***************************************************************************)
RetryArgs ==
    [ max_attempts : 0..MaxAttempts, initial_delay : 1..MaxDelay, max_delay : 1..MaxDelay,
      exponential_base : {1, 2},
      calls : [ 1..MaxAttempts -> {Return("result"), RaiseListed, RaiseOther} ] ]

\* One call of a wrapped coroutine.
RetryCall ==
    /\ call_args # << >>
    /\ call_result = << >>
    /\ call_result' = << async_retry(call_args[1].max_attempts, call_args[1].initial_delay,
                                      call_args[1].max_delay, call_args[1].exponential_base,
                                      call_args[1].calls) >>
    /\ UNCHANGED << call_args, executor_vars, gate_vars, client_vars >>

InitRetry ==
    /\ InitCommon
    /\ EmitterReady
    /\ GateOff
    /\ ClientIdle
    /\ price = 11
    /\ mt5_initialized = TRUE
    /\ call_args \in { << a >> : a \in RetryArgs }
    /\ call_result = << >>

NextRetry == RetryCall

SpecRetry == InitRetry /\ [][NextRetry]_vars

(***************************************************************************)
(* core/dynamic_risk.py: the trade history.                                *)
(***************************************************************************)
\* The profit of the n-th closed trade: n units, won or (among the first
\* MaxVaried trades) lost, so that every record differs from every other.
ProfitsAt(n) == IF n <= MaxVaried THEN {n, 0 - n} ELSE {n}

\* One call of register_trade.
RegisterTrade ==
    /\ Len(registered) < MaxRegistered
    /\ \E profit \in ProfitsAt(Len(registered) + 1) :
          /\ trade_history' = register_trade(trade_history, profit)
          /\ registered' = Append(registered, [profit |-> profit])
    /\ UNCHANGED << active_strategies, open_positions, lock, exit_levels, broker,
                    next_ticket, price, cycle, monitor_pc, todo, manage_todo, accepted,
                    last_order, last_modify, last_partial, last_eval, command_queue,
                    command_pc, last_command, mt5_initialized, life_vars, emit_vars,
                    gate_vars, client_vars, call_vars, positions_answered, retired >>

NextHistory == RegisterTrade

SpecHistory == Init /\ [][NextHistory]_vars

(***************************************************************************)
(* models/strategy.py and StrategyExecutor._persist_strategy: a strategy   *)
(* written to the strategies table and read back.                          *)
(*                                                                         *)
(* A value of a Dict[str, Any] field is a node: a scalar carries its text  *)
(* in value, a list, tuple or dict carries its members in items, and a     *)
(* member of a dict carries its key.                                       *)
(***************************************************************************)
Node(key, type, value, items) == [ key |-> key, type |-> type, value |-> value, items |-> items ]

Keyed(key, node) == [ node EXCEPT !.key = key ]

Scalars ==
    { Node("", "int", "1", << >>), Node("", "float", "0.1", << >>), Node("", "str", "1", << >>),
      Node("", "bool", "true", << >>), Node("", "null", "null", << >>) }

\* The sequences of at most MaxItems members drawn from a set.
Members(S) == UNION { [ 1..n -> S ] : n \in 0..MaxItems }

ListsOf(S) == { Node("", "list", "", items) : items \in Members(S) }

\* A dict's i-th member has the key k<i>.
DictKeys == << "k1", "k2", "k3" >>

DictsOf(S) ==
    { Node("", "dict", "", [ i \in DOMAIN items |-> Keyed(DictKeys[i], items[i]) ]) :
        items \in Members(S) }

\* What a request body or a command's parameters can carry in rules: a dict
\* of scalars, lists and dicts.
RuleTrees == DictsOf(Scalars \cup ListsOf(Scalars) \cup DictsOf(Scalars))

EmptyDict == Node("", "dict", "", << >>)

\* StrategyConfig as start_strategy receives it.
StrategyConfigs ==
    [ id : {"s1", "s2"}, name : {"EMA Trend"}, symbol : {"EURUSD"}, timeframe : {"M15"},
      rules : RuleTrees, settings : DictsOf({Node("", "int", "1", << >>)}),
      options : {EmptyDict} ]

\* StrategyConfig.model_dump(by_alias=True): id and name go out under their
\* aliases, the other fields under their names.
model_dump_by_alias(strategy) ==
    [ strategyId |-> strategy.id, strategyName |-> strategy.name, symbol |-> strategy.symbol,
      timeframe |-> strategy.timeframe, rules |-> strategy.rules,
      settings |-> strategy.settings, options |-> strategy.options ]

\* StoredStrategy.payload, a JSON column: what is read back is the JSON
\* text of what was written, so a tuple comes back as a list.
RECURSIVE json_column(_)
json_column(node) ==
    [ key |-> node.key,
      type |-> IF node.type = "tuple" THEN "list" ELSE node.type,
      value |-> node.value,
      items |-> [ i \in DOMAIN node.items |-> json_column(node.items[i]) ] ]

\* The row _persist_strategy leaves in the table: a new row, or the old
\* row with name, symbol, timeframe and payload replaced.
stored_row(strategy) ==
    LET payload == model_dump_by_alias(strategy)
    IN  [ id |-> strategy.id, name |-> strategy.name, symbol |-> strategy.symbol,
          timeframe |-> strategy.timeframe,
          payload |-> [ payload EXCEPT !.rules = json_column(payload.rules),
                                       !.settings = json_column(payload.settings),
                                       !.options = json_column(payload.options) ] ]

\* The row an earlier start of the same id left behind.
OldRow(id) ==
    stored_row([ id |-> id, name |-> "Old", symbol |-> "GBPUSD", timeframe |-> "H1",
                 rules |-> EmptyDict, settings |-> EmptyDict, options |-> EmptyDict ])

\* StrategyExecutor._persist_strategy: the table's row for this id after
\* the call; a failure of the session is logged and leaves the row as it was.
_persist_strategy(row_before, strategy, session_ok) ==
    IF session_ok THEN << stored_row(strategy) >> ELSE row_before

\* StrategyConfig.model_validate: a field is read under its alias or, with
\* populate_by_name, under its name; settings and options default to {}.
model_validate(payload) ==
    LET has(k) == k \in DOMAIN payload
    IN  [ id |-> IF has("strategyId") THEN payload.strategyId ELSE payload.id,
          name |-> IF has("strategyName") THEN payload.strategyName ELSE payload.name,
          symbol |-> payload.symbol,
          timeframe |-> payload.timeframe,
          rules |-> payload.rules,
          settings |-> IF has("settings") THEN payload.settings ELSE EmptyDict,
          options |-> IF has("options") THEN payload.options ELSE EmptyDict ]

\* Reading a stored strategy back: the payload of its row, validated.
load_strategy(row) == model_validate(row.payload)

PersistArgs == [ strategy : StrategyConfigs, existing : BOOLEAN, session_ok : BOOLEAN ]

\* One strategy persisted and read back.
PersistAndLoad ==
    /\ call_args # << >>
    /\ call_result = << >>
    /\ LET a == call_args[1]
           before == IF a.existing THEN << OldRow(a.strategy.id) >> ELSE << >>
           after == _persist_strategy(before, a.strategy, a.session_ok)
       IN  call_result' = << [ persisted |-> a.session_ok,
                               row |-> after,
                               loaded |-> IF after = << >> THEN << >>
                                          ELSE << load_strategy(after[1]) >> ] >>
    /\ UNCHANGED << call_args, executor_vars, gate_vars, client_vars >>

InitPersist ==
    /\ InitCommon
    /\ EmitterReady
    /\ GateOff
    /\ ClientIdle
    /\ price = 11
    /\ mt5_initialized = TRUE
    /\ call_args \in { << a >> : a \in PersistArgs }
    /\ call_result = << >>

NextPersist == PersistAndLoad

SpecPersist == InitPersist /\ [][NextPersist]_vars

(***************************************************************************)
(* Claims checked under Spec.                                              *)
(***************************************************************************)
\* The record's configured riskManagement values.
RiskRulesOf(strategy_id) == Configs[Get(active_strategies, strategy_id).config].riskManagement

\* C1: the orchestrator sends no order for a strategy that already has
\* riskManagement.maxPositions positions open.
C1_NoOrderAtMaxPositions ==
    \/ last_order = << >>
    \/ last_order[1].own_before < RiskRulesOf(last_order[1].strategy).maxPositions

\* C2: an exception raised while one strategy is evaluated never ends the
\* cycle or the monitor loop.
C2_ExceptionContained == monitor_pc # "crashed"

\* C7: once stop_strategy has succeeded the record is gone, so list_statuses
\* reports no stopped strategy.
C7_StoppedRecordRemoved ==
    \A id \in list_statuses : Get(active_strategies, id).status # "stopped"

ReducedLotSize(order) ==
    LET config == Configs[Get(active_strategies, order.strategy).config]
        lot == config.riskManagement.lotSize
        after_corr == IF order.corr_reduced
                      THEN (lot * config.correlationFilter.reduceFactor) \div 100
                      ELSE lot
    IN  IF order.spread_reduced
        THEN (after_corr * config.spreadFilter.reduceFactor) \div 100
        ELSE after_corr

C5_ExecutedLevelNeverFiresAgain ==
    [][ /\ \A t \in DOMAIN exit_levels : \A i \in DOMAIN exit_levels[t] :
              exit_levels[t][i].executed =>
                  (t \in DOMAIN exit_levels' /\ exit_levels'[t][i].executed)
        /\ (last_partial' = << >> \/ ~last_partial'[1].executed_before) ]_vars

\* C5 witness: the second level is requested in a cycle where the first,
\* executed before, still has its trigger satisfied.
C5_Witness ==
    /\ last_partial # << >>
    /\ last_partial[1].level = 2
    /\ exit_levels[last_partial[1].ticket][1].executed
    /\ price >= exit_levels[last_partial[1].ticket][1].trigger_price

\* C6: a stop modification is requested only for a stop on the favourable
\* side of the current one: above it for BUY, below it for SELL.
C6_TrailingNeverWorsens ==
    \/ last_modify = << >>
    \/ LET m == last_modify[1]
           Better(stop) == IF m.type = "BUY" THEN stop > m.current_stop
                           ELSE stop < m.current_stop
       IN  /\ m.requested => Better(m.new_stop)
           /\ ~Better(m.computed) => ~m.requested

\* C6 witness: the terminal accepted a trailing modification.
C6_Witness ==
    /\ last_modify # << >>
    /\ last_modify[1].requested
    /\ last_modify[1].accepted

(***************************************************************************)
(* Claims checked under SpecCommands.                                      *)
(***************************************************************************)
\* The ids list_statuses reports, each with its status.
StatusOf == [ i \in DOMAIN active_strategies |->
                << active_strategies[i].id, active_strategies[i].status >> ]

\* C4: while run_cycle holds the lock, no step changes the set of strategy
\* records or any record's status.
C4_CycleExcludesStartStop ==
    [][ lock = "run_cycle" => StatusOf' = StatusOf ]_vars

\* C4 witness: a STOP_STRATEGY command for an active strategy is at the head
\* of the queue while a cycle is under way.
C4_Witness ==
    /\ lock = "run_cycle"
    /\ command_queue # << >>
    /\ Head(command_queue).well_formed
    /\ Head(command_queue).command = "STOP_STRATEGY"
    /\ Head(command_queue).strategyId \in Keys(active_strategies)
    /\ Get(active_strategies, Head(command_queue).strategyId).status = "active"

\* C3: a command whose processing fails is dropped and the command loop
\* keeps running.
C3_CommandLoopSurvives == command_pc # "crashed"

\* C8: after a START_STRATEGY command for a stopped id the strategy is active
\* under the config just supplied.
C8_StartAfterStopReplaces ==
    \/ last_command = << >>
    \/ ~last_command[1].payload.well_formed
    \/ last_command[1].payload.command # "START_STRATEGY"
    \/ last_command[1].payload.config = 0
    \/ last_command[1].status_before # "stopped"
    \/ LET record == Get(active_strategies, last_command[1].payload.strategyId)
       IN  record.status = "active" /\ record.config = last_command[1].payload.config

(***************************************************************************)
(* Claims checked under SpecGate.                                          *)
(***************************************************************************)
\* C10: in observe mode the gate returns neither deny nor
\* require_confirmation, and an answer of deny or require_confirmation comes
\* back as allow with the caution note as the first suggestion.
C10_ObserveNeverBlocks ==
    \/ gate_result = << >>
    \/ supervisor.mode # "observe"
    \/ LET r == gate_result[1]
           blocking == {"deny", "require_confirmation"}
       IN  /\ ~r.raised => r.decision.action \notin blocking
           /\ (r.answer # << >> /\ r.answer[1].kind = "json"
                  /\ r.answer[1].action \in blocking)
              => ( /\ ~r.raised
                   /\ r.decision.action = "allow"
                   /\ r.decision.suggestions.is_list
                   /\ r.decision.suggestions.items # << >>
                   /\ Head(r.decision.suggestions.items) = CautionNote )

\* C12: in enforce mode an allow without any risk tag comes only from a
\* well-formed allow answer of the provider; a missing credential, a missing
\* provider or an unparseable answer never yields an untagged allow.
C12_EnforceAllowTaggedOrGenuine ==
    \/ gate_result = << >>
    \/ supervisor.mode # "enforce"
    \/ gate_result[1].raised
    \/ gate_result[1].decision.action # "allow"
    \/ gate_result[1].decision.risks # << >>
    \/ /\ gate_result[1].answer # << >>
       /\ gate_result[1].answer[1].kind = "json"
       /\ gate_result[1].answer[1].action = "allow"

(***************************************************************************)
(* Claims checked under SpecClient.                                        *)
(***************************************************************************)
\* The POST of the last evaluate went wrong: no answer, or an error status.
ClientCallFailed ==
    /\ client_result # << >>
    /\ client_result[1].called
    /\ \/ client_result[1].response[1].kind = "timeout"
       \/ client_result[1].response[1].status_code # 200

\* C11: when the call to the advisory service fails or times out, the gate
\* returns a decision, allow or a tagged require_confirmation, and never deny.
C11_FailedCallReturnsDecision ==
    ClientCallFailed =>
        /\ ~client_result[1].raised
        /\ \/ client_result[1].returned[1].data.action = "allow"
           \/ /\ client_result[1].returned[1].data.action = "require_confirmation"
              /\ client_result[1].returned[1].data.risks # << >>

\* The cache entry the last evaluate found under its key, or None.
EntryBefore == client_result[1].entry_before

\* The entry under the key of the last evaluate, or None.
EntryAfter == cache_store[cache_key(client_result[1].context)]

\* C13: an evaluate that finds an entry under its key whose TTL has not
\* elapsed returns the entry's decision, flagged cached, without calling the
\* service; one that finds an elapsed entry drops it and calls the service;
\* a 200 answer with ttlMs > 0 is stored for ttlMs, and no other answer is
\* stored.
C13_CachedUntilTtlElapses ==
    client_result # << >> =>
        /\ (EntryBefore # << >> /\ now <= EntryBefore[1].expires_at) =>
               /\ ~client_result[1].called
               /\ client_result[1].returned =
                      << [data |-> EntryBefore[1].value, cached |-> TRUE] >>
               /\ EntryAfter = EntryBefore
        /\ (EntryBefore = << >> \/ now > EntryBefore[1].expires_at) =>
               /\ client_result[1].called
               /\ IF /\ client_result[1].response[1].kind = "response"
                     /\ client_result[1].response[1].status_code = 200
                     /\ client_result[1].response[1].data.ttlMs # << >>
                     /\ client_result[1].response[1].data.ttlMs[1] > 0
                  THEN EntryAfter =
                          << [ value |-> client_result[1].response[1].data,
                               expires_at |->
                                   now + client_result[1].response[1].data.ttlMs[1] ] >>
                  ELSE EntryAfter = << >>

\* An evaluate for an account balance of zero is answered from the cache on
\* the last millisecond of the TTL.
C13_Witness ==
    /\ client_result # << >>
    /\ ~client_result[1].called
    /\ client_result[1].returned[1].cached
    /\ client_result[1].context.account.balance = 0
    /\ now = EntryBefore[1].expires_at
    /\ now > 0

(***************************************************************************)
(* Claims checked under SpecConditions.                                    *)
(***************************************************************************)
\* The conditions of the call that hold on its snapshot.
Holding ==
    { i \in DOMAIN call_args[1].conditions :
        condition_matches(call_args[1].conditions[i], call_args[1].indicators) }

\* C14: with logic AND evaluate yields a signal iff every condition of the
\* list holds on the snapshot, and with logic OR iff at least one holds.
C14_AndOrReduction ==
    call_result # << >> =>
        /\ call_args[1].logic = "AND" =>
               (call_result[1] # None <=>
                    Cardinality(Holding) = Len(call_args[1].conditions))
        /\ call_args[1].logic = "OR" =>
               (call_result[1] # None <=> Cardinality(Holding) >= 1)

\* Two conditions of which one holds: OR has given a signal.
C14_Witness ==
    /\ call_result # << >>
    /\ call_args[1].logic = "OR"
    /\ Len(call_args[1].conditions) = 2
    /\ Cardinality(Holding) = 1
    /\ call_result[1] # None

\* C15: a condition tagged with a non-primary timeframe and required = true
\* that does not hold leaves the evaluation without signal, under AND and OR.
C15_RequiredConfirmationForcesFailure ==
    call_result # << >> =>
        ( ( \E i \in DOMAIN call_args[1].conditions :
               /\ call_args[1].conditions[i]._mtf # << >>
               /\ call_args[1].conditions[i]._mtf[1].required
               /\ i \notin Holding )
          => call_result[1] = None )

\* The call is about one plain crossing condition of RSI and close.
SingleCrossing(comparator) ==
    /\ call_result # << >>
    /\ Len(call_args[1].conditions) = 1
    /\ call_args[1].conditions[1].condition = comparator
    /\ call_args[1].indicators.rsi # << >>

\* C16: crosses_above holds iff the left operand was at or below the right one
\* on the previous sample and is above it on the current sample; crosses_below
\* is the mirror image.
C16_CrossingNeedsPreviousSample ==
    /\ SingleCrossing("crosses_above") =>
           (call_result[1] # None <=>
                /\ call_args[1].previous.rsi[1] <= call_args[1].previous.close[1]
                /\ call_args[1].indicators.rsi[1] > call_args[1].indicators.close[1])
    /\ SingleCrossing("crosses_below") =>
           (call_result[1] # None <=>
                /\ call_args[1].previous.rsi[1] >= call_args[1].previous.close[1]
                /\ call_args[1].indicators.rsi[1] < call_args[1].indicators.close[1])

(***************************************************************************)
(* Claims checked under SpecSizing.                                        *)
(***************************************************************************)
\* C17: whatever the sizing method and the input, the call returns a lot
\* size within the configured [minLotSize, maxLotSize] and does not raise.
C17_LotWithinConfiguredRange ==
    call_result # << >> =>
        /\ ~call_result[1].raised
        /\ call_result[1].lot >= call_args[1].config.minLotSize
        /\ call_result[1].lot <= call_args[1].config.maxLotSize

(***************************************************************************)
(* Claims checked under SpecFilters.                                       *)
(***************************************************************************)
\* The lot size of the turn before the spread filter's reduction.
LotBeforeSpread ==
    LET config == call_args[1].config
        correlation_action ==
            check_correlation(config.correlationFilter, call_args[1].answers.high_corr)
    IN  IF correlation_action.action = "reduce"
        THEN (config.riskManagement.lotSize * correlation_action.factor) \div 100
        ELSE config.riskManagement.lotSize

\* The turn reached the enabled spread filter with a spread reading.
SpreadFilterReached ==
    /\ call_result # << >>
    /\ call_result[1].outcome = "signal"
    /\ call_args[1].config.spreadFilter.enabled
    /\ call_args[1].answers.info_exec

\* C18: with the spread above maxSpread, action REDUCE_SIZE places the order
\* with the lot multiplied by reduceFactor kept within [0.1, 1.0], and any
\* other action places no order; with the spread at most maxSpread the
\* order is placed with the lot unchanged.
C18_SpreadFilterReducesOrSkips ==
    SpreadFilterReached =>
        LET config == call_args[1].config.spreadFilter
            kept == IF config.reduceFactor < 10 THEN 10
                    ELSE IF config.reduceFactor > 100 THEN 100
                    ELSE config.reduceFactor
        IN  IF call_args[1].answers.spread <= config.maxSpread
            THEN /\ call_result[1].sent
                 /\ call_result[1].lot_size = LotBeforeSpread
            ELSE IF config.action = "REDUCE_SIZE"
            THEN /\ call_result[1].sent
                 /\ call_result[1].lot_size = (LotBeforeSpread * kept) \div 100
            ELSE ~call_result[1].sent

\* A spread above maxSpread under REDUCE_SIZE with the scenario's factor 0.5:
\* the order leaves with half the configured lot.
C18_Witness ==
    /\ SpreadFilterReached
    /\ call_args[1].answers.spread > call_args[1].config.spreadFilter.maxSpread
    /\ call_args[1].config.spreadFilter.action = "REDUCE_SIZE"
    /\ call_args[1].config.spreadFilter.reduceFactor = 50
    /\ call_result[1].sent
    /\ 2 * call_result[1].lot_size = call_args[1].config.riskManagement.lotSize

\* C19: a consulted gating filter that does not pass is the last filter
\* consulted in the turn and no order is placed; when every filter passes,
\* reducing or not, the order is placed and the reducing filters only scale
\* its lot size.
C19_FailedFilterEndsTheTurn ==
    call_result # << >> =>
        LET config == call_args[1].config
            answers == call_args[1].answers
            consulted == call_result[1].consulted
            correlation_action == check_correlation(config.correlationFilter, answers.high_corr)
            spread_result == SpreadFilterCheck(config.spreadFilter, answers.info_exec,
                                               answers.spread)
            scaled(lot, result) == IF result.action = "reduce"
                                   THEN (lot * result.factor) \div 100
                                   ELSE lot
        IN  /\ \A i \in DOMAIN consulted :
                   ~filter_passed(config, answers, consulted[i]) =>
                       /\ ~call_result[1].sent
                       /\ i = Len(consulted)
            /\ call_result[1].sent =>
                   /\ consulted = FilterOrder
                   /\ \A i \in DOMAIN consulted : filter_passed(config, answers, consulted[i])
                   /\ call_result[1].lot_size =
                          scaled(scaled(config.riskManagement.lotSize, correlation_action),
                                 spread_result)
            /\ ( /\ consulted = FilterOrder
                 /\ \A i \in DOMAIN consulted : filter_passed(config, answers, consulted[i])
                 /\ answers.info_exec )
               => call_result[1].sent

\* The news filter reports a blackout after the multi-timeframe filter has
\* confirmed: the turn ends there without order.
C19_Witness ==
    /\ call_result # << >>
    /\ call_result[1].consulted = << "multi_timeframe", "news" >>
    /\ call_args[1].answers.news_blackout
    /\ call_args[1].answers.signal_holds
    /\ ~call_result[1].sent

(***************************************************************************)
(* More claims checked under SpecExits.                                    *)
(***************************************************************************)
\* The tickets of the tracked positions.
TrackedTickets ==
    UNION { { open_positions[i].positions[j].ticket :
                j \in DOMAIN open_positions[i].positions } : i \in DOMAIN open_positions }

\* C20: when a cycle has ended every tracked position has a volume above
\* zero, and a position whose volume a partial exit has brought to zero or
\* below is no longer tracked after that step of the cycle.
C20_TrackedVolumePositive ==
    /\ monitor_pc = "wait" =>
           \A i \in DOMAIN open_positions : \A j \in DOMAIN open_positions[i].positions :
               open_positions[i].positions[j].volume > 0
    /\ ( /\ last_partial # << >>
         /\ last_partial[1].accepted
         /\ last_partial[1].ticket \notin DOMAIN broker )
       => last_partial[1].ticket \notin TrackedTickets

\* A partial exit has just closed what was left of a position, and the
\* position is gone from the tracked set.
C20_Witness ==
    /\ last_partial # << >>
    /\ last_partial[1].accepted
    /\ last_partial[1].ticket \notin DOMAIN broker
    /\ last_partial[1].ticket \notin TrackedTickets
    /\ last_partial[1].volume > 0

(***************************************************************************)
(* Claims checked under SpecLadder.                                        *)
(***************************************************************************)
\* C21: when a partial-exit level fires, the volume the terminal is asked to
\* close is the position's remaining volume at that moment times the
\* level's percentage / 100.
C21_ExitVolumeFromRemaining ==
    last_partial # << >> =>
        last_partial[1].volume =
            Round2((last_partial[1].remaining * last_partial[1].percentage) \div 100)

\* C22: when the triggers of several levels of one position that have not
\* executed hold in the same cycle, all of them fire in that cycle: once
\* the cycle's partial close of a position went through and the position is
\* still open, none of its levels is left both triggered and not executed.
C22_AllTriggeredLevelsFire ==
    ( /\ last_partial # << >>
      /\ last_partial[1].accepted
      /\ last_partial[1].ticket \in DOMAIN broker )
    => LET ticket == last_partial[1].ticket
           levels == exit_levels[ticket]
       IN  \A i \in DOMAIN levels :
               levels[i].executed \/ ~Triggered(broker[ticket], levels[i], price)

\* C23: once a position is retired, no partial-exit levels remain
\* registered for its ticket: between cycles every ticket the exit manager
\* holds levels for belongs to a tracked position.
C23_RetiredTicketHasNoLevels ==
    monitor_pc = "wait" => \A t \in DOMAIN exit_levels : t \in TrackedTickets

\* stop_strategy has stopped the strategy.
Stopped(strategy_id) ==
    /\ strategy_id \in Keys(active_strategies)
    /\ Get(active_strategies, strategy_id).status = "stopped"

\* C24: the step that stops a strategy changes neither its tracked positions
\* nor their exit levels, and a cycle that reaches a position of a stopped
\* strategy which the terminal still reports trails its stop under the
\* strategy's trailing rules and fires a partial-exit level whose trigger
\* holds, as for an active strategy.
C24_StoppedStrategyStillManaged ==
    [][ /\ \A sid \in StrategyIds :
               (~Stopped(sid) /\ Stopped(sid)')
               => (open_positions' = open_positions /\ exit_levels' = exit_levels)
        /\ ( /\ monitor_pc = "manage"
             /\ manage_todo # << >>
             /\ Stopped(Head(manage_todo)[1])
             /\ Head(manage_todo)[2] \in DOMAIN broker )
           => LET sid == Head(manage_todo)[1]
                  ticket == Head(manage_todo)[2]
                  live == broker[ticket]
                  trailing == Configs[Get(active_strategies, sid).config].trailing
                  levels == IF ticket \in DOMAIN exit_levels THEN exit_levels[ticket]
                            ELSE << >>
                  computed == IF live.type = "BUY" THEN price - trailing.distance
                              ELSE price + trailing.distance
                  better == IF live.type = "BUY"
                            THEN computed > live.stopLoss + trailing.step
                            ELSE computed < live.stopLoss - trailing.step
              IN  /\ trailing.enabled
                     => /\ last_modify' # << >>
                        /\ last_modify'[1].ticket = ticket
                        /\ last_modify'[1].computed = computed
                        /\ last_modify'[1].requested = better
                  /\ (\E i \in DOMAIN levels :
                          ~levels[i].executed /\ Triggered(live, levels[i], price))
                     => /\ last_partial' # << >>
                        /\ last_partial'[1].ticket = ticket
                        /\ ~last_partial'[1].executed_before ]_vars

\* C24 witness: a cycle has moved the stop and closed a part of a position
\* whose strategy is stopped.
C24_Witness ==
    /\ Stopped("s1")
    /\ last_modify # << >>
    /\ last_modify[1].accepted
    /\ last_partial # << >>
    /\ last_partial[1].accepted
    /\ last_partial[1].ticket \in TrackedTickets

(***************************************************************************)
(* Further claims checked under Spec.                                      *)
(***************************************************************************)
\* C25: when the terminal rejects an order, the strategy keeps status
\* active, its trades_count and the tracked positions are unchanged, nothing
\* is opened, and the order is not re-sent: the strategy's turn in the
\* cycle's walk is over and it has no further turn in the same cycle.
C25_RejectedOrderNotResent ==
    [][ /\ (last_order' # << >> /\ ~last_order'[1].accepted)
           => LET sid == last_order'[1].strategy
              IN  /\ todo # << >>
                  /\ Head(todo) = sid
                  /\ todo' = Tail(todo)
                  /\ \A j \in DOMAIN todo' : todo'[j] # sid
                  /\ cycle' = cycle
                  /\ Get(active_strategies', sid).status = "active"
                  /\ Get(active_strategies', sid).trades_count =
                         Get(active_strategies, sid).trades_count
                  /\ open_positions' = open_positions
                  /\ broker' = broker
                  /\ next_ticket' = next_ticket
        /\ todo' # todo => (cycle' = cycle + 1 \/ todo' = Tail(todo)) ]_vars

\* C25 witness: the terminal has rejected the order of a strategy that
\* already holds a tracked position and a counted trade.
C25_Witness ==
    /\ last_order # << >>
    /\ ~last_order[1].accepted
    /\ last_order[1].own_before = 1
    /\ Get(active_strategies, last_order[1].strategy).status = "active"
    /\ Get(active_strategies, last_order[1].strategy).trades_count = 1
    /\ Len(Get(open_positions, last_order[1].strategy).positions) = 1

\* C26: when no candles come back for a strategy in a cycle, no order is
\* placed and nothing is opened, the strategy's status stays active, its
\* last_check is set to the running cycle, and the cycle goes on; every
\* cycle walks all the records, and a record whose status is active is
\* evaluated when its turn comes, so the strategy is evaluated again in the
\* next cycle.
C26_NoCandlesSkipsTheTurn ==
    [][ /\ (last_eval' # << >> /\ last_eval'[1].evaluated /\ ~last_eval'[1].candles_ok)
           => LET sid == last_eval'[1].strategy
              IN  /\ last_order' = << >>
                  /\ broker' = broker
                  /\ open_positions' = open_positions
                  /\ next_ticket' = next_ticket
                  /\ Get(active_strategies', sid).status = "active"
                  /\ Get(active_strategies', sid).last_check = cycle
                  /\ Get(active_strategies', sid).trades_count =
                         Get(active_strategies, sid).trades_count
                  /\ monitor_pc' = "eval"
        /\ cycle' = cycle + 1 => todo' = KeyList(active_strategies)
        /\ last_eval' # << >>
           => last_eval'[1].evaluated =
                  (Get(active_strategies, last_eval'[1].strategy).status = "active") ]_vars

\* C26 witness: in the second cycle a strategy that has not traded gets its
\* turn, no candles come back, and its last_check is the second cycle.
C26_Witness ==
    /\ cycle = 2
    /\ last_eval # << >>
    /\ last_eval[1].evaluated
    /\ ~last_eval[1].candles_ok
    /\ Get(active_strategies, last_eval[1].strategy).last_check = 2
    /\ Get(active_strategies, last_eval[1].strategy).trades_count = 0
    /\ Len(active_strategies) = 2

\* C27: when the trade-log write or the platform report of an opened trade
\* fails, the order stands: the position the terminal accepted is open at
\* the terminal and registered in the strategy's tracked positions, the
\* strategy's trades_count is incremented, and the cycle goes on.
C27_RecordingFailureKeepsTheTrade ==
    [][ ( /\ last_order' # << >>
          /\ last_order'[1].accepted
          /\ (~last_order'[1].logged \/ ~last_order'[1].reported) )
        => LET sid == last_order'[1].strategy
               ticket == last_order'[1].ticket
           IN  /\ ticket \in DOMAIN broker'
               /\ ticket \notin DOMAIN broker
               /\ sid \in Keys(open_positions')
               /\ \E j \in DOMAIN Get(open_positions', sid).positions :
                      Get(open_positions', sid).positions[j].ticket = ticket
               /\ Get(active_strategies', sid).trades_count =
                      Get(active_strategies, sid).trades_count + 1
               /\ Get(active_strategies', sid).status = "active"
               /\ monitor_pc' = "eval" ]_vars

\* C27 witness: an order was accepted while both the trade-log write and
\* the platform report failed; the position is tracked and counted.
C27_Witness ==
    /\ last_order # << >>
    /\ last_order[1].accepted
    /\ ~last_order[1].logged
    /\ ~last_order[1].reported
    /\ last_order[1].ticket \in TrackedTickets
    /\ Get(active_strategies, last_order[1].strategy).trades_count = 1

(***************************************************************************)
(* Claims checked under SpecReports.                                       *)
(***************************************************************************)
\* C28: a trade report whose POST fails with a network error is attempted
\* again, after delays that grow by the exponential base, and no more than
\* the cap of 3 attempts is made.
C28_FailedReportRetried ==
    ( /\ call_result # << >>
      /\ call_args[1].name = "report_trade"
      /\ call_args[1].configured
      /\ call_args[1].posts[1] = "network_error" )
    => LET done == call_result[1]
       IN  /\ done.attempts >= 2
           /\ done.attempts <= ReportTradeAttempts
           /\ Len(done.delays) = done.attempts - 1
           /\ \A i \in DOMAIN done.delays :
                  i > 1 => done.delays[i] = DefaultExponentialBase * done.delays[i - 1]

(***************************************************************************)
(* Claims checked under SpecShutdown.                                      *)
(***************************************************************************)
\* C29: the terminal connection is released only once both the monitor
\* loop and the command loop have finished; a cycle in progress when
\* shutdown is requested is not cancelled: it goes on step by step with the
\* connection held until run_cycle returns or raises, and each loop ends
\* only from its place between two cycles or two commands.
C29_ReleaseAfterBothLoops ==
    [][ /\ (mt5_initialized /\ ~mt5_initialized')
           => (monitor_pc \in Finished /\ command_pc \in Finished)
        /\ monitor_pc \in {"eval", "manage"}
           => /\ monitor_pc' \in {"eval", "manage", "wait", "crashed"}
              /\ mt5_initialized' = mt5_initialized
        /\ (monitor_pc' = "done" /\ monitor_pc # "done") => monitor_pc = "wait"
        /\ (command_pc' = "done" /\ command_pc # "done") => command_pc = "wait" ]_vars

\* C29 witness: the server has shut down after a cycle that placed an order
\* and ran to its end: both loops have ended and the connection is released.
C29_Witness ==
    /\ lifespan_pc = "closed"
    /\ ~mt5_initialized
    /\ monitor_pc = "done"
    /\ command_pc = "done"
    /\ cycle = 1
    /\ accepted["s1"] = 1
    /\ emitted # << >>

(***************************************************************************)
(* Claims checked under SpecEmitter.                                       *)
(***************************************************************************)
\* C30: account-update events are emitted at most once per second: any two
\* emitted events are at least one second apart, however often run_cycle
\* or another caller asks for one.
C30_AccountUpdatesThrottled ==
    \A i \in DOMAIN emitted : \A j \in DOMAIN emitted :
        i < j => emitted[j] - emitted[i] >= OneSecond

\* C30 witness: three cycles have asked for an update, and two events went
\* out, exactly one second apart.
C30_Witness ==
    /\ cycle = 3
    /\ monitor_pc = "wait"
    /\ Len(emitted) = 2
    /\ emitted[2] - emitted[1] = OneSecond

(***************************************************************************)
(* Claims checked under SpecHistory.                                       *)
(***************************************************************************)
\* C31: after any sequence of register_trade calls the history holds at
\* most 500 records, and they are the most recently registered ones in the
\* order of registration: the oldest record is the one evicted.
C31_HistoryIsTheLatestRecords ==
    LET n == Len(registered)
        kept == Min(n, HistoryCap)
    IN  /\ Len(trade_history) <= HistoryCap
        /\ trade_history = [ i \in 1..kept |-> registered[n - kept + i] ]

\* More trades were registered than the history keeps, and the first
\* record kept is the one registered right after the evicted ones.
C31_Witness ==
    /\ Len(registered) > HistoryCap
    /\ Len(trade_history) = HistoryCap
    /\ trade_history[1] = registered[Len(registered) - HistoryCap + 1]
    /\ trade_history[1] # registered[1]

StepOf(ticket) ==
    LET owner == CHOOSE sid \in Keys(active_strategies) :
                     \E i \in DOMAIN open_positions :
                         /\ open_positions[i].id = sid
                         /\ \E j \in DOMAIN open_positions[i].positions :
                                open_positions[i].positions[j].ticket = ticket
    IN  trailing_config_of(owner).step

\* By how much the computed stop improves on the current one.
Improvement(m) ==
    IF m.type = "BUY" THEN m.computed - m.current_stop ELSE m.current_stop - m.computed

\* C33: a trailing-stop modification is requested only when the computed
\* stop improves on the position's current stop by more than the configured
\* step; an improvement of at most one step requests nothing and leaves the
\* tracked stop and the terminal's stop as they were.
C33_TrailingNeedsMoreThanStep ==
    \/ last_modify = << >>
    \/ LET m == last_modify[1]
           tracked == { pos \in UNION { { open_positions[i].positions[j] :
                                             j \in DOMAIN open_positions[i].positions } :
                                         i \in DOMAIN open_positions } :
                          pos.ticket = m.ticket }
       IN  \/ tracked = {}
           \/ /\ m.requested => Improvement(m) > StepOf(m.ticket)
              /\ Improvement(m) <= StepOf(m.ticket) =>
                     /\ ~m.requested
                     /\ \A pos \in tracked : pos.stopLoss = m.current_stop
                     /\ (m.ticket \in DOMAIN broker =>
                            broker[m.ticket].stopLoss = m.current_stop)

\* The price moved in the position's favour by exactly the step of a
\* strategy whose step is not zero, and no modification was requested.
C33_Witness ==
    /\ last_modify # << >>
    /\ \E i \in DOMAIN open_positions :
          \E j \in DOMAIN open_positions[i].positions :
              open_positions[i].positions[j].ticket = last_modify[1].ticket
    /\ Improvement(last_modify[1]) > 0
    /\ StepOf(last_modify[1].ticket) > 0
    /\ Improvement(last_modify[1]) = StepOf(last_modify[1].ticket)
    /\ ~last_modify[1].requested

(***************************************************************************)
(* Claims checked under SpecReconcile.                                     *)
(***************************************************************************)
\* C34: a tracked position leaves the local state only when the terminal
\* no longer holds its ticket, or when a partial exit has brought its
\* volume to zero or below.
C34_RemovedOnlyWhenClosed ==
    [][ \A t \in TrackedTickets \ TrackedTickets' :
          \/ t \notin DOMAIN broker
          \/ /\ last_partial' # << >>
             /\ last_partial'[1].ticket = t
             /\ last_partial'[1].accepted
             /\ last_partial'[1].remaining - last_partial'[1].volume <= 0 ]_vars

(***************************************************************************)
(* More claims checked under Spec.                                         *)
(***************************************************************************)
\* C35: a stopped strategy is never evaluated and no order is sent for it;
\* a cycle evaluates only strategies whose status is active, one at a time,
\* and none of them a second time in the same cycle: while the cycle walks
\* the strategies, the one it has just handled is not among those left.
C35_OnlyActiveStrategiesEvaluated ==
    /\ last_eval # << >> =>
          /\ last_eval[1].evaluated =>
                Get(active_strategies, last_eval[1].strategy).status = "active"
          /\ monitor_pc = "eval" => \A i \in DOMAIN todo : todo[i] # last_eval[1].strategy
    /\ last_order # << >> =>
          Get(active_strategies, last_order[1].strategy).status = "active"
    /\ \A i, j \in DOMAIN todo : todo[i] = todo[j] => i = j

\* A cycle passed over a stopped strategy that has a position open, right
\* after another strategy's turn.
C35_Witness ==
    /\ last_eval # << >>
    /\ ~last_eval[1].evaluated
    /\ Get(active_strategies, last_eval[1].strategy).status = "stopped"
    /\ \E i \in DOMAIN open_positions :
          /\ open_positions[i].id = last_eval[1].strategy
          /\ open_positions[i].positions # << >>
    /\ Len(active_strategies) = 2

(***************************************************************************)
(* Claims checked under SpecRetry.                                         *)
(***************************************************************************)
RECURSIVE Power(_, _)
Power(base, n) == IF n = 0 THEN 1 ELSE base * Power(base, n - 1)

\* The attempts among 1..max_attempts that do not raise a listed exception.
Settling(a) == { k \in 1..a.max_attempts : a.calls[k].kind # "raise_listed" }

\* The wrapped function is called at most max_attempts times; the first
\* call that returns, or raises an exception that is not listed, ends the
\* wrapper with that outcome; max_attempts listed failures end it with the
\* last exception.
C36_AttemptsAndOutcome ==
    call_result # << >> =>
        LET a == call_args[1]
            r == call_result[1]
        IN  /\ r.attempts <= a.max_attempts
            /\ Settling(a) # {} =>
                  LET first == CHOOSE k \in Settling(a) : \A j \in Settling(a) : k <= j
                  IN  r.attempts = first /\ r.outcome = a.calls[first]
            /\ (Settling(a) = {} /\ a.max_attempts >= 1) =>
                  r.attempts = a.max_attempts /\ r.outcome = RaiseListed
            /\ Len(r.delays) = Max(r.attempts - 1, 0)

\* The delay slept before attempt k + 1 is
\* min(initial_delay * exponential_base^(k-1), max_delay).
C36_Delays ==
    call_result # << >> =>
        \A k \in DOMAIN call_result[1].delays :
            call_result[1].delays[k] =
                Min(call_args[1].initial_delay * Power(call_args[1].exponential_base, k - 1),
                    call_args[1].max_delay)

\* C36: a wrapped function is invoked at most max_attempts times, the first
\* success is returned at once, max_attempts failures re-raise the last
\* exception, an exception that is not listed is not retried, and the delay
\* before attempt k + 1 is min(initial_delay * exponential_base^(k-1),
\* max_delay).
C36_RetryBoundedWithCappedBackoff == C36_AttemptsAndOutcome /\ C36_Delays

(***************************************************************************)
(* Claims checked under SpecRestart.                                       *)
(***************************************************************************)
\* C37: start_strategy for an id whose strategy is active changes nothing:
\* the record keeps its config, its trades_count and its place, no second
\* record appears, and the tracked positions stay as they were; the status
\* returned is built from that record.
C37_StartOfActiveIsIdempotent ==
    [][ ( /\ last_command' # << >>
          /\ last_command'[1].payload.command = "START_STRATEGY"
          /\ last_command'[1].payload.config # 0
          /\ last_command'[1].status_before = "active" )
        => /\ active_strategies' = active_strategies
           /\ open_positions' = open_positions ]_vars

\* A second START_STRATEGY, with another config, was handled for a strategy
\* that has traded and holds a tracked position.
C37_Witness ==
    /\ last_command # << >>
    /\ last_command[1].payload.command = "START_STRATEGY"
    /\ last_command[1].status_before = "active"
    /\ LET record == Get(active_strategies, last_command[1].payload.strategyId)
       IN  /\ record.trades_count > 0
           /\ record.config # last_command[1].payload.config
           /\ last_command[1].payload.config # 0
    /\ TrackedTickets # {}
    /\ Len(active_strategies) = 1

(***************************************************************************)
(* Claims checked under SpecRetire.                                        *)
(***************************************************************************)
\* C38 as stated: every retired ticket has exactly one close record, one
\* TradeRecord and one position-closed event over the whole run.
C38_RetiredExactlyOnce ==
    \A t \in DOMAIN retired : retired[t] = [closes |-> 1, trades |-> 1, events |-> 1]

\* C38 as amended: a ticket is retired at most once, and is no longer
\* tracked afterwards; its retirement registers exactly one TradeRecord,
\* writes at most one close record, and sends exactly one position-closed
\* event when the emitter is enabled and none when it is not.
C38_RetiredOnceBestEffortRecords ==
    \A t \in DOMAIN retired :
        /\ retired[t].trades = 1
        /\ retired[t].closes <= 1
        /\ retired[t].events = (IF emitter_enabled THEN 1 ELSE 0)
        /\ t \notin TrackedTickets
        /\ Len(registered) = Cardinality(DOMAIN retired)

\* One position was closed out by its partial exits and retired with its
\* close record written and its event sent.
C38_Witness ==
    /\ \E t \in DOMAIN retired : retired[t] = [closes |-> 1, trades |-> 1, events |-> 1]
    /\ last_partial # << >>
    /\ last_partial[1].accepted
    /\ last_partial[1].ticket \in DOMAIN retired

(***************************************************************************)
(* Claims checked under SpecExits: rejected requests.                      *)
(***************************************************************************)
\* The tracked positions of a ticket.
TrackedAs(ticket) ==
    { pos \in UNION { { open_positions[i].positions[j] :
                          j \in DOMAIN open_positions[i].positions } :
                      i \in DOMAIN open_positions } : pos.ticket = ticket }

\* After a rejected partial close the level is still not executed and the
\* tracked and the terminal's volume are what they were.
RejectedPartialKeeps ==
    \/ last_partial = << >>
    \/ last_partial[1].accepted
    \/ LET p == last_partial[1]
       IN  /\ ~exit_levels[p.ticket][p.level].executed
           /\ \A pos \in TrackedAs(p.ticket) : pos.volume = p.remaining
           /\ (p.ticket \in DOMAIN broker => broker[p.ticket].volume = p.remaining)

\* After a rejected stop modification the tracked and the terminal's stop
\* are what they were.
RejectedModifyKeeps ==
    \/ last_modify = << >>
    \/ ~last_modify[1].requested
    \/ last_modify[1].accepted
    \/ LET m == last_modify[1]
       IN  /\ \A pos \in TrackedAs(m.ticket) : pos.stopLoss = m.current_stop
           /\ (m.ticket \in DOMAIN broker => broker[m.ticket].stopLoss = m.current_stop)

\* The levels of a live ticket that are not executed and whose trigger
\* holds at the current price.
Pending(ticket) ==
    { i \in DOMAIN exit_levels[ticket] :
        /\ ~exit_levels[ticket][i].executed
        /\ Triggered(broker[ticket], exit_levels[ticket][i], price) }

\* C39: a rejected partial close leaves its level not executed and the
\* tracked volume unchanged, and every later pass over the live position
\* requests a partial close for the first level that is not executed and
\* whose trigger holds, so a rejected level is tried again while its
\* trigger holds.  A rejected stop modification leaves the tracked stop
\* unchanged.
C39_RejectedRequestsChangeNothing ==
    [][ /\ RejectedPartialKeeps'
        /\ RejectedModifyKeeps'
        /\ LET ticket == Head(manage_todo)[2]
           IN  ( /\ monitor_pc = "manage"
                 /\ manage_todo # << >>
                 /\ manage_todo' = Tail(manage_todo)
                 /\ ticket \in current_positions
                 /\ ticket \in DOMAIN exit_levels
                 /\ Pending(ticket) # {} )
               => /\ last_partial' # << >>
                  /\ last_partial'[1].ticket = ticket
                  /\ last_partial'[1].level \in Pending(ticket)
                  /\ \A i \in Pending(ticket) : last_partial'[1].level <= i ]_vars

\* The terminal rejected a partial close of a volume the position still
\* had, in a pass whose stop modification it rejected too; the level's
\* trigger holds and the level is still to be executed.
C39_Witness ==
    /\ last_partial # << >>
    /\ ~last_partial[1].accepted
    /\ last_partial[1].volume <= last_partial[1].remaining
    /\ last_partial[1].ticket \in DOMAIN broker
    /\ last_partial[1].level \in Pending(last_partial[1].ticket)
    /\ last_modify # << >>
    /\ last_modify[1].requested
    /\ ~last_modify[1].accepted

\* C40: once stop_event is set both loop tasks end: no cycle begins with
\* the event set, the cycle or wait under way finishes and the monitor loop
\* returns; a command processed with the event set is the command loop's
\* last, and without one the loop's wait ends and it returns.
C40_LoopsEndAfterStop ==
    /\ stop_event ~> gathered
    /\ [][stop_event => cycle' = cycle]_vars
    /\ [][(stop_event /\ last_command' # << >>) => command_pc' \in Finished]_vars

\* Both loops have returned with the event set, the monitor loop after at
\* least one cycle and the command loop on processing one more command.
C40_Witness ==
    /\ stop_event
    /\ monitor_pc = "done"
    /\ command_pc = "done"
    /\ last_command # << >>
    /\ cycle >= 1

====
